---- MODULE Spec2Model ----
(***************************************************************************)
(* Model of the salon booking backend (src/app.py, src/utils.py).          *)
(*                                                                         *)
(* The document store is the only shared state.  Every HTTP handler is a   *)
(* request process that walks through the handler's store accesses; two    *)
(* requests interleave between store accesses, never inside one.           *)
(*                                                                         *)
(* Text fields.  A date string "YYYY-MM-DD" is modelled by the digits of   *)
(* its day field (the prefix "YYYY-MM-" is the same in every string of     *)
(* the model): <<0,2>> is "....-02", <<2>> is "....-2".  String comparison *)
(* is lexicographic on these digits.  A time string is modelled by the     *)
(* digits hh of its hour field and by what follows the minutes ":00", its  *)
(* tail: [hh |-> <<0,9>>, tail |-> ""] is "09:00".                         *)
(*                                                                         *)
(* Money.  Prices are held in hundredths (cents); round(x, 2) is Round2.   *)
(***************************************************************************)
EXTENDS Integers, Sequences, FiniteSets, TLC

VARIABLES
    users,       \* users collection, in insertion order
    now,         \* the server clock, in hours since day 0, 00:00
    services,    \* services collection: ServiceIds -> document
    discounts,   \* discounts collection, in insertion order
    bookings,    \* bookings collection, in insertion order
    staff,       \* staff collection: StaffIds -> document
    attendance,  \* attendance collection, in insertion order
    oid,         \* number of discount _ids handed out by insert_one
    req,         \* request processes: Procs -> handler state
    nreq,        \* number of requests received so far
    calc         \* last result of the pricing resolver

vars == <<users, now, services, discounts, bookings, staff, attendance, oid, req, nreq, calc>>

store == <<users, services, discounts, bookings, staff, attendance, oid>>

-----------------------------------------------------------------------------
(* Bounds of the model *)

MaxReqDisc == 4      \* requests received in one behaviour of SpecDisc
MaxReqBook == 3      \* requests received in one behaviour of SpecBook
MaxReqAtt == 4       \* requests received in one behaviour of SpecAtt
MaxReqVal == 3       \* requests received in one behaviour of SpecDiscVal
MaxReqStaff == 4     \* requests received in one behaviour of SpecStaff
MaxReqReg == 4       \* requests received in one behaviour of SpecReg
MaxReqRole == 3      \* requests received in one behaviour of SpecRole
MaxReqCat == 3       \* requests received in one behaviour of SpecCatalog
MaxReqSvc == 4       \* requests received in one behaviour of SpecSvc

Procs == {"p1", "p2"}
ServiceIds == {1, 2}
StaffIds == {1, 2}
CustomerIds == {"alice", "bob"}

HoursPerDay == 24

-----------------------------------------------------------------------------
(* Text and time helpers: src/utils.py *)

Max(a, b) == IF a >= b THEN a ELSE b

\* Value of a digit string.
DigitsValue(s) ==
    IF Len(s) = 1 THEN s[1] ELSE IF Len(s) = 2 THEN 10 * s[1] + s[2] ELSE 0

\* Python's str comparison a < b on digit strings of length 1 or 2.
RECURSIVE StrLess(_, _)
StrLess(a, b) ==
    IF a = <<>> THEN b # <<>>
    ELSE IF b = <<>> THEN FALSE
    ELSE IF Head(a) # Head(b) THEN Head(a) < Head(b)
    ELSE StrLess(Tail(a), Tail(b))

StrLe(a, b) == a = b \/ StrLess(a, b)

\* validate_date_format: strptime(date_str, "%Y-%m-%d") accepts a day field of
\* one or two digits naming a day 1..31 ("2" and "02" are both accepted).
validate_date_format(s) ==
    /\ Len(s) \in {1, 2}
    /\ DigitsValue(s) \in 1..31

\* The hour field matches [01]?[0-9]|2[0-3].
HourField(hh) ==
    \/ Len(hh) = 1
    \/ Len(hh) = 2 /\ hh[1] \in {0, 1}
    \/ Len(hh) = 2 /\ hh[1] = 2 /\ hh[2] \in 0..3

\* validate_time_slot: re.match of ^([01]?[0-9]|2[0-3]):[0-5][0-9]$ ; the $
\* of a Python pattern also matches before a newline that ends the string.
validate_time_slot(s) == HourField(s.hh) /\ s.tail \in {"", "\n"}

\* parse_time: strptime(time_str, "%H:%M") raises ValueError unless the whole
\* string is converted.
parse_time_raises(s) == ~(HourField(s.hh) /\ s.tail = "")

\* parse_date / parse_time / combine_date_time: the instant of a slot.
combine_date_time(d, t) == DigitsValue(d) * HoursPerDay + DigitsValue(t.hh)

\* A mutant of is_future_datetime: only the dates are compared, so every
\* slot of today counts as future.
is_future_datetime_today(d, t) ==
    DigitsValue(d) * HoursPerDay + HoursPerDay > now

\* A mutant of is_future_datetime: the current instant counts as future.
is_future_datetime_nonstrict(d, t) == combine_date_time(d, t) >= now

\* is_future_datetime: booking_datetime > datetime.now()
is_future_datetime(d, t) == combine_date_time(d, t) > now

\* datetime.now().strftime("%H:%M"): always two digits.
NowTime == [hh |-> <<(now % HoursPerDay) \div 10, (now % HoursPerDay) % 10>>,
            tail |-> ""]

\* A mutant of Today: the date of the day after.
Today_nextday ==
    <<((now \div HoursPerDay) + 1) \div 10, ((now \div HoursPerDay) + 1) % 10>>

\* datetime.now().strftime("%Y-%m-%d"): always two digits.
Today == <<(now \div HoursPerDay) \div 10, (now \div HoursPerDay) % 10>>

-----------------------------------------------------------------------------
(* Pricing resolver: src/utils.py calculate_discounted_price,               *)
(* src/app.py get_active_discount, calculate_booking_price                  *)

\* round(x, 2) of a value given in 1/10000, result in cents (round half even).
Round2(n) ==
    LET q == n \div 100
        r == n % 100
    IN  IF r < 50 THEN q
        ELSE IF r > 50 THEN q + 1
        ELSE IF q % 2 = 0 THEN q ELSE q + 1

\* A mutant of calculate_discounted_price: the floor at 0 is dropped.
calculate_discounted_price_nofloor(base_price, discount_type, discount_value) ==
    LET final_price ==
            IF discount_type = "percentage"
            THEN base_price * 100 - base_price * discount_value
            ELSE IF discount_type = "flat"
            THEN (base_price - discount_value * 100) * 100
            ELSE base_price * 100
    IN  Round2(final_price)

\* base_price in cents, discount_value in whole units (percent, or currency).
calculate_discounted_price(base_price, discount_type, discount_value) ==
    LET final_price ==     \* in 1/10000
            IF discount_type = "percentage"
            THEN base_price * 100 - base_price * discount_value
            ELSE IF discount_type = "flat"
            THEN (base_price - discount_value * 100) * 100
            ELSE base_price * 100
    IN  Max(0, Round2(final_price))

\* A mutant of ActiveToday: the filter does not look at is_active.
ActiveToday_anystate(d, service_id) ==
    /\ d.service_id = service_id
    /\ StrLe(d.start_date, Today)
    /\ StrLe(Today, d.end_date)

\* A mutant of ActiveToday: the window is open at both ends.
ActiveToday_exclusive(d, service_id) ==
    /\ d.service_id = service_id
    /\ d.is_active
    /\ StrLess(d.start_date, Today)
    /\ StrLess(Today, d.end_date)

\* The find_one filter of get_active_discount.
ActiveToday(d, service_id) ==
    /\ d.service_id = service_id
    /\ d.is_active
    /\ StrLe(d.start_date, Today)
    /\ StrLe(Today, d.end_date)

\* A mutant of FirstIndex: the store answers with another matching document
\* than the one the resolver got last.
FirstIndex_rotating(hits) ==
    IF hits = {} THEN 0
    ELSE LET first == CHOOSE i \in hits : \A j \in hits : i <= j
             last == CHOOSE i \in hits : \A j \in hits : j <= i
         IN  IF /\ "discount" \in DOMAIN calc
                /\ calc.discount = first
             THEN last ELSE first

\* find_one: position of the first document matching, 0 when none does.
\* hits is the set of positions whose documents match the filter.
FirstIndex(hits) ==
    IF hits = {} THEN 0 ELSE CHOOSE i \in hits : \A j \in hits : i <= j

get_active_discount(service_id) ==
    LET Hit(d) == ActiveToday(d, service_id)
    IN  FirstIndex({k \in DOMAIN discounts : Hit(discounts[k])})

\* A mutant of calculate_booking_price: the discount is looked up but the
\* base price is charged.
calculate_booking_price_base(service_id, service) ==
    [final_price |-> service.base_price,
     discount_applied |-> get_active_discount(service_id) # 0]

\* (final_price, discount_applied) for a service document and its id.
calculate_booking_price(service_id, service) ==
    LET i == get_active_discount(service_id)
    IN  IF i # 0
        THEN [final_price |-> calculate_discounted_price(service.base_price,
                                 discounts[i].discount_type,
                                 discounts[i].discount_value),
              discount_applied |-> TRUE]
        ELSE [final_price |-> service.base_price, discount_applied |-> FALSE]

-----------------------------------------------------------------------------
(* Request processes *)

Idle == [op |-> "idle", pc |-> "idle", code |-> 0, error |-> ""]

\* A worker is free to take the next request.
Free(p) == req[p].pc \in {"idle", "done"}

\* The handler returns a success response with HTTP status c.
Return(r, c) == [r EXCEPT !.pc = "done", !.code = c]

\* The handler returns jsonify({'error': ...}) with HTTP status c; e names
\* the kind of error the message stands for.
Fail(r, c, e) == [r EXCEPT !.pc = "done", !.code = c, !.error = e]

\* Flask turns an exception no handler catches into errorhandler(500).
internal_error(r) == Fail(r, 500, "InternalError")

\* $set of the fields named in has, on the first document of seq at one of
\* the positions hits (the documents matching the filter).
SetFields(doc, has, vals) ==
    [f \in DOMAIN doc |-> IF f \in has THEN vals[f] ELSE doc[f]]

UpdateOne(seq, hits, has, vals) ==
    [i \in 1..Len(seq) |->
        IF i = FirstIndex(hits) THEN SetFields(seq[i], has, vals) ELSE seq[i]]

-----------------------------------------------------------------------------
(* Pricing resolver as an operation *)

\* One evaluation of calculate_booking_price on the store as it stands.
ResolvePrice(s) ==
    /\ services[s].exists
    /\ calc' = [done |-> TRUE, service_id |-> s,
                base_price |-> services[s].base_price,
                price |-> calculate_booking_price(s, services[s])]
    /\ UNCHANGED <<now, store, req, nreq>>

\* One evaluation of get_active_discount on the store as it stands: the
\* position of the discount it returns, 0 for None.
ResolveDiscount(s) ==
    /\ calc' = [done |-> TRUE, service_id |-> s,
                discount |-> get_active_discount(s)]
    /\ UNCHANGED <<now, store, req, nreq>>

-----------------------------------------------------------------------------
(* Discount window manager: src/app.py create_discount, update_discount,    *)
(* delete_discount                                                          *)

\* A mutant of OverlapsActive: the window test is strict at both ends.
OverlapsActive_strict(d, data) ==
    /\ d.service_id = data.service_id
    /\ d.is_active
    /\ StrLess(d.start_date, data.end_date)
    /\ StrLess(data.start_date, d.end_date)

\* The find_one filter of create_discount: an active discount of the same
\* service with start_date <= new end_date and end_date >= new start_date.
OverlapsActive(d, data) ==
    /\ d.service_id = data.service_id
    /\ d.is_active
    /\ StrLe(d.start_date, data.end_date)
    /\ StrLe(data.start_date, d.end_date)

\* Lines 553-585: the service lookup and the validation of the request.
CreateDiscountBegin(p, data) ==
    /\ Free(p)
    /\ LET r == [op |-> "create_discount", pc |-> "cd_check", code |-> 0, error |-> "",
                 data |-> data]
       IN  req' = [req EXCEPT ![p] =
             IF ~services[data.service_id].exists THEN Fail(r, 404, "NotFound")
             ELSE IF data.discount_type \notin {"percentage", "flat"}
                  THEN Fail(r, 400, "ValidationError")
             ELSE IF data.discount_value <= 0 THEN Fail(r, 400, "ValidationError")
             ELSE IF data.discount_type = "percentage" /\ data.discount_value > 100
                  THEN Fail(r, 400, "ValidationError")
             ELSE IF ~validate_date_format(data.start_date)
                     \/ ~validate_date_format(data.end_date)
                  THEN Fail(r, 400, "ValidationError")
             ELSE IF StrLess(data.end_date, data.start_date) THEN Fail(r, 400, "ValidationError")
             ELSE r]
    /\ nreq' = nreq + 1
    /\ UNCHANGED <<now, store, calc>>

\* Lines 587-597: the overlap pre-check.
CreateDiscountCheck(p) ==
    /\ req[p].pc = "cd_check"
    /\ LET Hit(d) == OverlapsActive(d, req[p].data)
       IN  req' = [req EXCEPT ![p] =
             IF FirstIndex({k \in DOMAIN discounts : Hit(discounts[k])}) # 0
             THEN Fail(req[p], 409, "Conflict")
             ELSE [req[p] EXCEPT !.pc = "cd_insert"]]
    /\ UNCHANGED <<now, store, nreq, calc>>

\* Lines 599-616: insert_one; the collection has no unique index.
CreateDiscountInsert(p) ==
    /\ req[p].pc = "cd_insert"
    /\ discounts' = Append(discounts,
            [id |-> oid + 1,
             service_id |-> req[p].data.service_id,
             discount_type |-> req[p].data.discount_type,
             discount_value |-> req[p].data.discount_value,
             start_date |-> req[p].data.start_date,
             end_date |-> req[p].data.end_date,
             is_active |-> TRUE])
    /\ oid' = oid + 1
    /\ req' = [req EXCEPT ![p] = Return(req[p], 201)]
    /\ UNCHANGED <<users, now, services, bookings, staff, attendance, nreq, calc>>

\* Lines 670-712: the lookup of the discount and the validation of the
\* fields the request carries (data.has); update_data is what passes.
UpdateDiscountBegin(p, discount_id, data) ==
    /\ Free(p)
    /\ LET ById(d) == d.id = discount_id
           i == FirstIndex({k \in DOMAIN discounts : ById(discounts[k])})
           r == [op |-> "update_discount", pc |-> "ud_write", code |-> 0, error |-> "",
                 discount_id |-> discount_id, data |-> data]
           discount_type ==
               IF "discount_type" \in data.has THEN data.discount_type
               ELSE discounts[i].discount_type
           start_date ==
               IF "start_date" \in data.has THEN data.start_date
               ELSE discounts[i].start_date
           end_date ==
               IF "end_date" \in data.has THEN data.end_date
               ELSE discounts[i].end_date
       IN  req' = [req EXCEPT ![p] =
             IF i = 0 THEN Fail(r, 404, "NotFound")
             ELSE IF "discount_type" \in data.has
                     /\ data.discount_type \notin {"percentage", "flat"}
                  THEN Fail(r, 400, "ValidationError")
             ELSE IF "discount_value" \in data.has /\ data.discount_value <= 0
                  THEN Fail(r, 400, "ValidationError")
             ELSE IF "discount_value" \in data.has
                     /\ discount_type = "percentage" /\ data.discount_value > 100
                  THEN Fail(r, 400, "ValidationError")
             ELSE IF "start_date" \in data.has
                     /\ ~validate_date_format(data.start_date)
                  THEN Fail(r, 400, "ValidationError")
             ELSE IF "end_date" \in data.has
                     /\ ~validate_date_format(data.end_date)
                  THEN Fail(r, 400, "ValidationError")
             ELSE IF StrLess(end_date, start_date) THEN Fail(r, 400, "ValidationError")
             ELSE r]
    /\ nreq' = nreq + 1
    /\ UNCHANGED <<now, store, calc>>

\* Lines 714-724: update_one({'_id': ...}, {'$set': update_data}).
UpdateDiscountWrite(p) ==
    /\ req[p].pc = "ud_write"
    /\ LET ById(d) == d.id = req[p].discount_id
       IN  discounts' = UpdateOne(discounts,
                            {k \in DOMAIN discounts : ById(discounts[k])},
                            req[p].data.has, req[p].data)
    /\ req' = [req EXCEPT ![p] = Return(req[p], 200)]
    /\ UNCHANGED <<users, now, services, bookings, staff, attendance, oid, nreq, calc>>

\* Lines 729-745: the discount is looked up and, when found, disabled.  The
\* write does not use what the lookup read, so the two are one step.
DeleteDiscount(p, discount_id) ==
    /\ Free(p)
    /\ LET ById(d) == d.id = discount_id
           r == [op |-> "delete_discount", pc |-> "done", code |-> 0, error |-> "",
                 discount_id |-> discount_id]
       IN  IF FirstIndex({k \in DOMAIN discounts : ById(discounts[k])}) = 0
           THEN /\ req' = [req EXCEPT ![p] = Fail(r, 404, "NotFound")]
                /\ UNCHANGED discounts
           ELSE /\ req' = [req EXCEPT ![p] = Return(r, 200)]
                /\ discounts' = UpdateOne(discounts,
                                    {k \in DOMAIN discounts : ById(discounts[k])},
                                    {"is_active"},
                                          [is_active |-> FALSE])
    /\ nreq' = nreq + 1
    /\ UNCHANGED <<users, now, services, bookings, staff, attendance, oid, calc>>

-----------------------------------------------------------------------------
(* Unique indexes of the store: src/app.py lines 143-145 *)

\* A mutant of BookingIndexAllows: the bookings collection has no unique index.
BookingIndexAllows_none(docs, doc) == TRUE

\* A mutant of BookingIndexAllows: the index covers only the bookings that
\* are not Cancelled.
BookingIndexAllows_live(docs, doc) ==
    \A i \in 1..Len(docs) :
        ~(/\ docs[i].service_id = doc.service_id
          /\ docs[i].date = doc.date
          /\ docs[i].time_slot = doc.time_slot
          /\ docs[i].status # "Cancelled")

\* bookings.create_index([service_id, date, time_slot], unique=True): the
\* index covers every document, whatever its status.
BookingIndexAllows(docs, doc) ==
    \A i \in 1..Len(docs) :
        ~(/\ docs[i].service_id = doc.service_id
          /\ docs[i].date = doc.date
          /\ docs[i].time_slot = doc.time_slot)

\* A mutant of UsersIndexAllows: the users collection has no index on email.
UsersIndexAllows_none(docs, doc) == TRUE

\* users.create_index('email', unique=True, sparse=True): no two documents
\* that have an email have the same one; the strings are compared as they
\* are stored.
UsersIndexAllows(docs, doc) ==
    \A i \in 1..Len(docs) : docs[i].email # doc.email

\* A mutant of AttendanceIndexAllows: the attendance collection has no index.
AttendanceIndexAllows_none(docs, doc) == TRUE

\* attendance.create_index([staff_id, date], unique=True)
AttendanceIndexAllows(docs, doc) ==
    \A i \in 1..Len(docs) :
        ~(docs[i].staff_id = doc.staff_id /\ docs[i].date = doc.date)

-----------------------------------------------------------------------------
(* Booking state machine: src/app.py create_booking, cancel_booking,        *)
(* update_booking_status                                                    *)

\* The find_one filter of create_booking: same triple, status not Cancelled.
HoldsSlot(b, data) ==
    /\ b.service_id = data.service_id
    /\ b.date = data.date
    /\ b.time_slot = data.time_slot
    /\ b.status # "Cancelled"

\* Lines 1077-1107: validation of the request and the service lookup.  The
\* ValueError that is_future_datetime lets through is caught by nobody.
CreateBookingBegin(p, customer_id, data) ==
    /\ Free(p)
    /\ LET service == services[data.service_id]
           r == [op |-> "create_booking", pc |-> "cb_check", code |-> 0,
                 error |-> "", customer_id |-> customer_id, data |-> data,
                 service |-> service,
                 price |-> [final_price |-> 0, discount_applied |-> FALSE]]
       IN  req' = [req EXCEPT ![p] =
             IF ~validate_date_format(data.date)
             THEN Fail(r, 400, "ValidationError")
             ELSE IF ~validate_time_slot(data.time_slot)
                  THEN Fail(r, 400, "ValidationError")
             ELSE IF parse_time_raises(data.time_slot) THEN internal_error(r)
             ELSE IF ~is_future_datetime(data.date, data.time_slot)
                  THEN Fail(r, 400, "ValidationError")
             ELSE IF ~service.exists THEN Fail(r, 404, "NotFound")
             ELSE IF service.status # "Active"
                  THEN Fail(r, 400, "ServiceUnavailable")
             ELSE r]
    /\ nreq' = nreq + 1
    /\ UNCHANGED <<now, store, calc>>

\* Lines 1109-1118: the slot pre-check.
CreateBookingCheck(p) ==
    /\ req[p].pc = "cb_check"
    /\ LET Hit(b) == HoldsSlot(b, req[p].data)
       IN  req' = [req EXCEPT ![p] =
             IF FirstIndex({k \in DOMAIN bookings : Hit(bookings[k])}) # 0
             THEN Fail(req[p], 409, "SlotTaken")
             ELSE [req[p] EXCEPT !.pc = "cb_price"]]
    /\ UNCHANGED <<now, store, nreq, calc>>

\* Lines 1120-1124: the customer lookup (every customer of a verified token
\* is in the users collection, and users are never removed) and the price.
CreateBookingPrice(p) ==
    /\ req[p].pc = "cb_price"
    /\ req' = [req EXCEPT ![p] =
          [req[p] EXCEPT !.pc = "cb_insert",
             !.price = calculate_booking_price(req[p].data.service_id,
                                               req[p].service)]]
    /\ UNCHANGED <<now, store, nreq, calc>>

\* A mutant of SlotDuplicate: the DuplicateKeyError is not caught.
SlotDuplicate_uncaught(r) == internal_error(r)

\* Lines 1163-1164: except DuplicateKeyError.
SlotDuplicate(r) == Fail(r, 409, "SlotTaken")

\* Lines 1126-1164: insert_one under the unique index.  Bookings are never
\* removed, so the position of a booking in the collection serves as its _id.
CreateBookingInsert(p) ==
    /\ req[p].pc = "cb_insert"
    /\ LET booking ==
             [id |-> Len(bookings) + 1,
              customer_id |-> req[p].customer_id,
              service_id |-> req[p].data.service_id,
              service_title |-> req[p].service.title,
              date |-> req[p].data.date,
              time_slot |-> req[p].data.time_slot,
              base_price |-> req[p].service.base_price,
              final_price |-> req[p].price.final_price,
              discount_applied |-> req[p].price.discount_applied,
              status |-> "Pending"]
       IN  IF BookingIndexAllows(bookings, booking)
           THEN /\ bookings' = Append(bookings, booking)
                /\ req' = [req EXCEPT ![p] = Return(req[p], 201)]
           ELSE /\ UNCHANGED bookings
                /\ req' = [req EXCEPT ![p] = SlotDuplicate(req[p])]
    /\ UNCHANGED <<users, now, services, discounts, staff, attendance, oid, nreq, calc>>

\* Lines 1191-1211: the booking lookup and the checks of a customer cancel.
\* What find_one returns when no booking has the _id.
NoBooking == [id |-> 0]

\* A mutant of NotOwner: every customer passes the ownership check.
NotOwner_never(booking, customer_id) == FALSE

\* Line 1202: booking['customer_id'] != customer_id
NotOwner(booking, customer_id) == booking.customer_id # customer_id

\* A mutant of NotCancellable: a Completed booking may still be cancelled.
NotCancellable_cancelled(booking) == booking.status = "Cancelled"

\* A mutant of NotCancellable: no status stops a cancellation.
NotCancellable_never(booking) == FALSE

\* Line 1206: booking['status'] in ['Cancelled', 'Completed']
NotCancellable(booking) == booking.status \in {"Cancelled", "Completed"}

\* Lines 1198-1211: the checks of cancel_booking on the booking it loaded, in
\* the order of the code; "" when all of them pass.
CancelCheck(booking, customer_id) ==
    IF booking = NoBooking THEN "NotFound"
    ELSE IF NotOwner(booking, customer_id) THEN "Forbidden"
    ELSE IF NotCancellable(booking) THEN "InvalidTransition"
    ELSE IF ~is_future_datetime(booking.date, booking.time_slot) THEN "PastBooking"
    ELSE ""

\* The HTTP status cancel_booking returns with each kind of failure.
CancelCode(e) ==
    IF e = "NotFound" THEN 404 ELSE IF e = "Forbidden" THEN 403 ELSE 400

\* Lines 1191-1211: the lookup of the booking (kept in the local variable
\* booking) and the checks on it.
CancelBookingBegin(p, customer_id, booking_id) ==
    /\ Free(p)
    /\ LET ById(b) == b.id = booking_id
           i == FirstIndex({k \in DOMAIN bookings : ById(bookings[k])})
           booking == IF i = 0 THEN NoBooking ELSE bookings[i]
           e == CancelCheck(booking, customer_id)
           r == [op |-> "cancel_booking", pc |-> "cn_write", code |-> 0,
                 error |-> "", customer_id |-> customer_id,
                 booking_id |-> booking_id, booking |-> booking]
       IN  req' = [req EXCEPT ![p] =
             IF e # "" THEN Fail(r, CancelCode(e), e) ELSE r]
    /\ nreq' = nreq + 1
    /\ UNCHANGED <<now, store, calc>>

\* A mutant of CancelBookingWrite: the cancellation also refunds, setting
\* final_price to 0.
CancelBookingWrite_refund(p) ==
    /\ req[p].pc = "cn_write"
    /\ bookings' = [i \in 1..Len(bookings) |->
                      IF bookings[i].id = req[p].booking_id
                      THEN [bookings[i] EXCEPT !.status = "Cancelled",
                                               !.final_price = 0]
                      ELSE bookings[i]]
    /\ req' = [req EXCEPT ![p] = Return(req[p], 200)]
    /\ UNCHANGED <<users, now, services, discounts, staff, attendance, oid, nreq, calc>>

\* Lines 1213-1230: update_one sets status to Cancelled.
CancelBookingWrite(p) ==
    /\ req[p].pc = "cn_write"
    /\ LET ById(b) == b.id = req[p].booking_id
       IN  bookings' = UpdateOne(bookings,
                           {k \in DOMAIN bookings : ById(bookings[k])},
                           {"status"},
                                 [status |-> "Cancelled"])
    /\ req' = [req EXCEPT ![p] = Return(req[p], 200)]
    /\ UNCHANGED <<users, now, services, discounts, staff, attendance, oid, nreq, calc>>

\* A mutant of valid_statuses: an admin cannot cancel.
valid_statuses_nocancel == {"Pending", "Confirmed", "Completed"}

\* Line 1280: valid_statuses
valid_statuses == {"Pending", "Confirmed", "Completed", "Cancelled"}

\* Lines 1276-1318: admin setStatus.  The write does not use what the lookup
\* read and bookings are never removed, so lookup and write are one step.
UpdateBookingStatus(p, booking_id, status) ==
    /\ Free(p)
    /\ LET ById(b) == b.id = booking_id
           r == [op |-> "update_booking_status", pc |-> "done", code |-> 0,
                 error |-> "", booking_id |-> booking_id, status |-> status]
       IN  IF status \notin valid_statuses
           THEN /\ req' = [req EXCEPT ![p] = Fail(r, 400, "ValidationError")]
                /\ UNCHANGED bookings
           ELSE IF FirstIndex({k \in DOMAIN bookings : ById(bookings[k])}) = 0
           THEN /\ req' = [req EXCEPT ![p] = Fail(r, 404, "NotFound")]
                /\ UNCHANGED bookings
           ELSE /\ req' = [req EXCEPT ![p] = Return(r, 200)]
                /\ bookings' = UpdateOne(bookings,
                                   {k \in DOMAIN bookings : ById(bookings[k])},
                                   {"status"},
                                         [status |-> status])
    /\ nreq' = nreq + 1
    /\ UNCHANGED <<users, now, services, discounts, staff, attendance, oid, calc>>

-----------------------------------------------------------------------------
(* Service catalogue: src/app.py get_service, update_service *)

\* A mutant of get_service_final_price: the public read reports base_price.
get_service_final_price_base(service_id, service) == service.base_price

\* Lines 453-466 (and 420-434 of get_all_services): the final_price the
\* public read attaches to a service document.
get_service_final_price(service_id, service) ==
    LET i == get_active_discount(service_id)
    IN  IF i # 0
        THEN calculate_discounted_price(service.base_price,
                                        discounts[i].discount_type,
                                        discounts[i].discount_value)
        ELSE service.base_price

\* Lines 443-468: the public read of one service.
GetService(p, service_id) ==
    /\ Free(p)
    /\ LET r == [op |-> "get_service", pc |-> "done", code |-> 0, error |-> "",
                 service_id |-> service_id, final_price |-> 0]
       IN  req' = [req EXCEPT ![p] =
             IF ~services[service_id].exists THEN Fail(r, 404, "NotFound")
             ELSE [Return(r, 200) EXCEPT !.final_price =
                     get_service_final_price(service_id, services[service_id])]]
    /\ nreq' = nreq + 1
    /\ UNCHANGED <<now, store, calc>>

\* int(data['duration']): a duration given in half minutes, cut to whole
\* minutes.
IntDuration(duration) == 2 * (duration \div 2)

\* Lines 374-406: create_service.  base_price and duration must be above 0;
\* the service is stored with int(duration) and with the status of the
\* request, Active when it gives none.  insert_one gives the service an _id
\* no stored service has.
CreateService(p, data) ==
    /\ Free(p)
    /\ \E s \in ServiceIds : ~services[s].exists
    /\ LET r == [op |-> "create_service", pc |-> "done", code |-> 0,
                 error |-> "", data |-> data]
           id == CHOOSE s \in ServiceIds :
                    /\ ~services[s].exists
                    /\ \A t \in ServiceIds : ~services[t].exists => s <= t
       IN  IF data.base_price <= 0 \/ data.duration <= 0
           THEN /\ req' = [req EXCEPT ![p] = Fail(r, 400, "ValidationError")]
                /\ UNCHANGED services
           ELSE /\ req' = [req EXCEPT ![p] = Return(r, 201)]
                /\ services' = [services EXCEPT ![id] =
                      [exists |-> TRUE,
                       status |-> IF "status" \in data.has THEN data.status
                                  ELSE "Active",
                       base_price |-> data.base_price,
                       title |-> data.title,
                       duration |-> IntDuration(data.duration)]]
    /\ nreq' = nreq + 1
    /\ UNCHANGED <<users, now, discounts, bookings, staff, attendance, oid, calc>>

\* Lines 473-506: $set of the fields the request carries (data.has).  The
\* write does not use what the lookup read, so lookup and write are one step.
UpdateService(p, service_id, data) ==
    /\ Free(p)
    /\ LET r == [op |-> "update_service", pc |-> "done", code |-> 0,
                 error |-> "", service_id |-> service_id, data |-> data]
       IN  IF ~services[service_id].exists
           THEN /\ req' = [req EXCEPT ![p] = Fail(r, 404, "NotFound")]
                /\ UNCHANGED services
           ELSE IF \/ "base_price" \in data.has /\ data.base_price <= 0
                   \/ "duration" \in data.has /\ data.duration <= 0
           THEN /\ req' = [req EXCEPT ![p] = Fail(r, 400, "ValidationError")]
                /\ UNCHANGED services
           ELSE /\ req' = [req EXCEPT ![p] = Return(r, 200)]
                /\ services' = [services EXCEPT ![service_id] =
                                   SetFields(@, data.has, data)]
    /\ nreq' = nreq + 1
    /\ UNCHANGED <<users, now, discounts, bookings, staff, attendance, oid, calc>>

\* What find_one returns when no service has the _id.
NoService == [exists |-> FALSE, status |-> "none", base_price |-> 0, title |-> 0,
              duration |-> 0]

\* A mutant of active_bookings: bookings of every status count.
active_bookings_all(service_id) ==
    Cardinality({i \in 1..Len(bookings) : bookings[i].service_id = service_id})

\* What delete_service has when it counts the bookings: the number of
\* bookings of the service that are Pending or Confirmed.
active_bookings(service_id) ==
    Cardinality({i \in 1..Len(bookings) :
                    /\ bookings[i].service_id = service_id
                    /\ bookings[i].status \in {"Pending", "Confirmed"}})

\* Lines 513-519: the lookup of the service.
DeleteServiceBegin(p, service_id) ==
    /\ Free(p)
    /\ LET r == [op |-> "delete_service", pc |-> "ds_count", code |-> 0,
                 error |-> "", service_id |-> service_id,
                 active_bookings |-> 0, deactivated |-> FALSE]
       IN  req' = [req EXCEPT ![p] =
             IF ~services[service_id].exists THEN Fail(r, 404, "NotFound")
             ELSE r]
    /\ nreq' = nreq + 1
    /\ UNCHANGED <<now, store, calc>>

\* Lines 521-527: count_documents and the choice it makes.
DeleteServiceCount(p) ==
    /\ req[p].pc = "ds_count"
    /\ LET n == active_bookings(req[p].service_id)
       IN  req' = [req EXCEPT ![p] =
             [req[p] EXCEPT !.active_bookings = n,
                            !.pc = IF n > 0 THEN "ds_deactivate"
                                   ELSE "ds_delete"]]
    /\ UNCHANGED <<now, store, nreq, calc>>

\* Lines 528-536: update_one sets the status to Inactive (no document
\* matches when the service has been removed in between).
DeleteServiceDeactivate(p) ==
    /\ req[p].pc = "ds_deactivate"
    /\ services' = [services EXCEPT ![req[p].service_id] =
                      IF @.exists THEN [@ EXCEPT !.status = "Inactive"] ELSE @]
    /\ req' = [req EXCEPT ![p] = [Return(req[p], 200) EXCEPT !.deactivated = TRUE]]
    /\ UNCHANGED <<users, now, discounts, bookings, staff, attendance, oid, nreq, calc>>

\* Line 539: delete_one removes the service.
DeleteServiceDelete(p) ==
    /\ req[p].pc = "ds_delete"
    /\ services' = [services EXCEPT ![req[p].service_id] = NoService]
    /\ req' = [req EXCEPT ![p].pc = "ds_discounts"]
    /\ UNCHANGED <<users, now, discounts, bookings, staff, attendance, oid, nreq, calc>>

\* Lines 541-544: delete_many removes the discounts of the service; the
\* bookings collection is not touched.
DeleteServiceDiscounts(p) ==
    /\ req[p].pc = "ds_discounts"
    /\ discounts' = SelectSeq(discounts,
                              LAMBDA d : d.service_id # req[p].service_id)
    /\ req' = [req EXCEPT ![p] = Return(req[p], 200)]
    /\ UNCHANGED <<users, now, services, bookings, staff, attendance, oid, nreq, calc>>

\* The response r with the exception that ended the request.
Raised(r, exc) ==
    [f \in DOMAIN r \cup {"exc"} |-> IF f = "exc" THEN exc ELSE r[f]]

\* The steps of delete_service that begin with a store call outside any
\* try block: count_documents, update_one, delete_one, delete_many.
UnguardedCalls == {"ds_count", "ds_deactivate", "ds_delete", "ds_discounts"}

\* Lines 88-94, 1598-1600: the store is unreachable when the request of p
\* makes its next call.  The driver gives up after its timeout and raises;
\* no handler catches the exception, and Flask answers with
\* errorhandler(500).  What the request wrote before stays written.
StoreTimeout(p) ==
    /\ req[p].pc \in UnguardedCalls
    /\ req' = [req EXCEPT ![p] =
                 Raised(internal_error(req[p]), "ServerSelectionTimeoutError")]
    /\ UNCHANGED <<now, store, nreq, calc>>

\* Lines 513-516: the store is unreachable at the find_one of
\* delete_service; the bare except around it answers 400 'Invalid service
\* ID'.
DeleteServiceLookupTimeout(p, service_id) ==
    /\ Free(p)
    /\ LET r == [op |-> "delete_service", pc |-> "ds_count", code |-> 0,
                 error |-> "", service_id |-> service_id,
                 active_bookings |-> 0, deactivated |-> FALSE]
       IN  req' = [req EXCEPT ![p] =
             Raised(Fail(r, 400, "ValidationError"),
                    "ServerSelectionTimeoutError")]
    /\ nreq' = nreq + 1
    /\ UNCHANGED <<now, store, calc>>

\* The server clock advances.
Tick ==
    /\ now < 2 * HoursPerDay + 9
    /\ now' = now + 1
    /\ UNCHANGED <<store, req, nreq, calc>>

-----------------------------------------------------------------------------
(* Attendance register: src/app.py attendance_checkin, attendance_checkout, *)
(* update_attendance, deactivate_staff                                      *)

\* A time field the request does not carry, and a null check_out_time.
AbsentTime == [hh |-> <<>>, tail |-> "absent"]
NullTime == [hh |-> <<>>, tail |-> "null"]

NoStaff == [exists |-> FALSE, is_deleted |-> FALSE, status |-> "none",
            role |-> "none"]

\* A staff member as create_staff stores it.
NewStaff == [exists |-> TRUE, is_deleted |-> FALSE, status |-> "Active",
             role |-> "stylist"]

\* The find_one filter of check-in and check-out: same staff_id and date.
SameDay(a, data) == a.staff_id = data.staff_id /\ a.date = data.date

\* Lines 905-920: validation of the date and the staff lookup.
CheckinBegin(p, data) ==
    /\ Free(p)
    /\ LET r == [op |-> "attendance_checkin", pc |-> "ci_check", code |-> 0,
                 error |-> "", data |-> data]
       IN  req' = [req EXCEPT ![p] =
             IF ~validate_date_format(data.date)
             THEN Fail(r, 400, "ValidationError")
             ELSE IF ~staff[data.staff_id].exists \/ staff[data.staff_id].is_deleted
                  THEN Fail(r, 404, "NotFound")
             ELSE r]
    /\ nreq' = nreq + 1
    /\ UNCHANGED <<now, store, calc>>

\* Lines 922-933: the existence pre-check, then the check_in_time, which
\* defaults to the current time of day.
CheckinCheck(p) ==
    /\ req[p].pc = "ci_check"
    /\ LET Hit(a) == SameDay(a, req[p].data)
           check_in_time ==
               IF req[p].data.check_in_time = AbsentTime THEN NowTime
               ELSE req[p].data.check_in_time
       IN  req' = [req EXCEPT ![p] =
             IF FirstIndex({k \in DOMAIN attendance : Hit(attendance[k])}) # 0
             THEN Fail(req[p], 409, "AlreadyCheckedIn")
             ELSE IF ~validate_time_slot(check_in_time)
                  THEN Fail(req[p], 400, "ValidationError")
             ELSE [req[p] EXCEPT !.pc = "ci_insert",
                                 !.data.check_in_time = check_in_time]]
    /\ UNCHANGED <<now, store, nreq, calc>>

\* Lines 935-952: insert_one under the unique index.  Nothing catches the
\* DuplicateKeyError of the index.  Attendance records are never removed, so
\* the position of a record in the collection serves as its _id.
CheckinInsert(p) ==
    /\ req[p].pc = "ci_insert"
    /\ LET record ==
             [id |-> Len(attendance) + 1,
              staff_id |-> req[p].data.staff_id,
              date |-> req[p].data.date,
              check_in_time |-> req[p].data.check_in_time,
              check_out_time |-> NullTime,
              attendance_status |-> "Present"]
       IN  IF AttendanceIndexAllows(attendance, record)
           THEN /\ attendance' = Append(attendance, record)
                /\ req' = [req EXCEPT ![p] = Return(req[p], 201)]
           ELSE /\ UNCHANGED attendance
                /\ req' = [req EXCEPT ![p] = internal_error(req[p])]
    /\ UNCHANGED <<users, now, services, discounts, bookings, staff, oid, nreq, calc>>

\* Lines 959-982: the lookup of the record and the validation of the request.
\* data.has names the optional fields the request carries.
CheckoutBegin(p, data) ==
    /\ Free(p)
    /\ LET Hit(a) == SameDay(a, data)
           i == FirstIndex({k \in DOMAIN attendance : Hit(attendance[k])})
           check_out_time ==
               IF "check_out_time" \in data.has THEN data.check_out_time
               ELSE NowTime
           attendance_status ==
               IF "attendance_status" \in data.has THEN data.attendance_status
               ELSE attendance[i].attendance_status
           r == [op |-> "attendance_checkout", pc |-> "co_write", code |-> 0,
                 error |-> "", data |-> data, attendance_id |-> 0,
                 check_out_time |-> NullTime, attendance_status |-> ""]
       IN  req' = [req EXCEPT ![p] =
             IF ~validate_date_format(data.date)
             THEN Fail(r, 400, "ValidationError")
             ELSE IF i = 0 THEN Fail(r, 404, "NotFound")
             ELSE IF ~validate_time_slot(check_out_time)
                  THEN Fail(r, 400, "ValidationError")
             ELSE IF attendance_status \notin {"Present", "Absent", "Half-day"}
                  THEN Fail(r, 400, "ValidationError")
             ELSE [r EXCEPT !.attendance_id = attendance[i].id,
                            !.check_out_time = check_out_time,
                            !.attendance_status = attendance_status]]
    /\ nreq' = nreq + 1
    /\ UNCHANGED <<now, store, calc>>

\* Lines 984-998: update_one sets check_out_time and attendance_status.
CheckoutWrite(p) ==
    /\ req[p].pc = "co_write"
    /\ LET ById(a) == a.id = req[p].attendance_id
       IN  attendance' = UpdateOne(attendance, {k \in DOMAIN attendance : ById(attendance[k])},
                             {"check_out_time", "attendance_status"},
                             [check_out_time |-> req[p].check_out_time,
                              attendance_status |-> req[p].attendance_status])
    /\ req' = [req EXCEPT ![p] = Return(req[p], 200)]
    /\ UNCHANGED <<users, now, services, discounts, bookings, staff, oid, nreq, calc>>

\* Lines 1031-1068: the admin correction of a record: $set of the fields the
\* request carries (data.has), each validated on its own.  The write does not
\* use what the lookup read, so lookup and write are one step.
UpdateAttendance(p, attendance_id, data) ==
    /\ Free(p)
    /\ LET ById(a) == a.id = attendance_id
           r == [op |-> "update_attendance", pc |-> "done", code |-> 0,
                 error |-> "", attendance_id |-> attendance_id, data |-> data]
           bad == \/ /\ "check_in_time" \in data.has
                     /\ ~validate_time_slot(data.check_in_time)
                  \/ /\ "check_out_time" \in data.has
                     /\ data.check_out_time # NullTime
                     /\ ~validate_time_slot(data.check_out_time)
                  \/ /\ "attendance_status" \in data.has
                     /\ data.attendance_status \notin {"Present", "Absent", "Half-day"}
       IN  IF FirstIndex({k \in DOMAIN attendance : ById(attendance[k])}) = 0
           THEN /\ req' = [req EXCEPT ![p] = Fail(r, 404, "NotFound")]
                /\ UNCHANGED attendance
           ELSE IF bad
           THEN /\ req' = [req EXCEPT ![p] = Fail(r, 400, "ValidationError")]
                /\ UNCHANGED attendance
           ELSE /\ req' = [req EXCEPT ![p] = Return(r, 200)]
                /\ attendance' = UpdateOne(attendance,
                                     {k \in DOMAIN attendance : ById(attendance[k])},
                                     data.has, data)
    /\ nreq' = nreq + 1
    /\ UNCHANGED <<users, now, services, discounts, bookings, staff, oid, calc>>

\* Lines 878-896: soft delete of a staff member; a no-op on a member that is
\* already soft-deleted.
DeactivateStaff(p, staff_id) ==
    /\ Free(p)
    /\ LET r == [op |-> "deactivate_staff", pc |-> "done", code |-> 0,
                 error |-> "", staff_id |-> staff_id]
       IN  IF ~staff[staff_id].exists
           THEN /\ req' = [req EXCEPT ![p] = Fail(r, 404, "NotFound")]
                /\ UNCHANGED staff
           ELSE IF staff[staff_id].is_deleted
           THEN /\ req' = [req EXCEPT ![p] = Return(r, 200)]
                /\ UNCHANGED staff
           ELSE /\ req' = [req EXCEPT ![p] = Return(r, 200)]
                /\ staff' = [staff EXCEPT ![staff_id].is_deleted = TRUE,
                                          ![staff_id].status = "Inactive"]
    /\ nreq' = nreq + 1
    /\ UNCHANGED <<users, now, services, discounts, bookings, attendance, oid, calc>>

\* Lines 761 and 856: the roles a staff member may have.
valid_roles == {"stylist", "receptionist", "manager", "therapist"}

\* Lines 777 and 858: the statuses a staff member may have.
staff_statuses == {"Active", "Inactive"}

\* Lines 752-787: create_staff.  The role is required and validated, the
\* status defaults to Active and is validated, is_deleted is stored False;
\* insert_one gives the member an _id no other member has.
CreateStaff(p, data) ==
    /\ Free(p)
    /\ \E s \in StaffIds : ~staff[s].exists
    /\ LET r == [op |-> "create_staff", pc |-> "done", code |-> 0,
                 error |-> "", data |-> data]
           id == CHOOSE s \in StaffIds :
                    /\ ~staff[s].exists
                    /\ \A t \in StaffIds : ~staff[t].exists => s <= t
       IN  IF data.role \notin valid_roles \/ data.status \notin staff_statuses
           THEN /\ req' = [req EXCEPT ![p] = Fail(r, 400, "ValidationError")]
                /\ UNCHANGED staff
           ELSE /\ req' = [req EXCEPT ![p] = Return(r, 201)]
                /\ staff' = [staff EXCEPT ![id] =
                                [exists |-> TRUE, is_deleted |-> FALSE,
                                 status |-> data.status, role |-> data.role]]
    /\ nreq' = nreq + 1
    /\ UNCHANGED <<users, now, services, discounts, bookings, attendance, oid, calc>>

\* A mutant of UpdateStaffBegin: the lookup does not ask for is_deleted
\* False.
UpdateStaffBegin_anystaff(p, staff_id, data) ==
    /\ Free(p)
    /\ LET r == [op |-> "update_staff", pc |-> "done", code |-> 0,
                 error |-> "", staff_id |-> staff_id, data |-> data]
       IN  req' = [req EXCEPT ![p] =
              IF ~staff[staff_id].exists
              THEN Fail(r, 404, "NotFound")
              ELSE IF \/ "role" \in data.has /\ data.role \notin valid_roles
                      \/ "status" \in data.has /\ data.status \notin staff_statuses
              THEN Fail(r, 400, "ValidationError")
              ELSE [r EXCEPT !.pc = "us_write"]]
    /\ nreq' = nreq + 1
    /\ UNCHANGED <<now, store, calc>>

\* Lines 838-859: update_staff up to its write.  find_one asks for the _id
\* and is_deleted False; then the role and the status of the request are
\* validated.
UpdateStaffBegin(p, staff_id, data) ==
    /\ Free(p)
    /\ LET r == [op |-> "update_staff", pc |-> "done", code |-> 0,
                 error |-> "", staff_id |-> staff_id, data |-> data]
       IN  req' = [req EXCEPT ![p] =
              IF ~staff[staff_id].exists \/ staff[staff_id].is_deleted
              THEN Fail(r, 404, "NotFound")
              ELSE IF \/ "role" \in data.has /\ data.role \notin valid_roles
                      \/ "status" \in data.has /\ data.status \notin staff_statuses
              THEN Fail(r, 400, "ValidationError")
              ELSE [r EXCEPT !.pc = "us_write"]]
    /\ nreq' = nreq + 1
    /\ UNCHANGED <<now, store, calc>>

\* Lines 861-873: update_one by _id alone, $set of the allowed fields the
\* request carries; is_deleted is not one of them.
UpdateStaffWrite(p) ==
    /\ req[p].pc = "us_write"
    /\ staff' = [staff EXCEPT ![req[p].staff_id] =
                    IF @.exists THEN SetFields(@, req[p].data.has, req[p].data)
                    ELSE @]
    /\ req' = [req EXCEPT ![p] = Return(req[p], 200)]
    /\ UNCHANGED <<users, now, services, discounts, bookings, attendance, oid, nreq, calc>>

-----------------------------------------------------------------------------
(* customer_register: src/app.py lines 258-307, src/utils.py lines 347-351 *)

\* Strings are sequences of one-character strings.
UpperCase == <<"A", "B", "C", "D", "E", "F", "G", "H", "I", "J", "K", "L", "M",
               "N", "O", "P", "Q", "R", "S", "T", "U", "V", "W", "X", "Y", "Z">>
LowerCase == <<"a", "b", "c", "d", "e", "f", "g", "h", "i", "j", "k", "l", "m",
               "n", "o", "p", "q", "r", "s", "t", "u", "v", "w", "x", "y", "z">>
DigitChars == {"0", "1", "2", "3", "4", "5", "6", "7", "8", "9"}

Letters == {UpperCase[k] : k \in 1..26} \cup {LowerCase[k] : k \in 1..26}

\* str.lower() on one character and on a string.
LowerChar(c) ==
    IF \E k \in 1..26 : UpperCase[k] = c
    THEN LowerCase[CHOOSE k \in 1..26 : UpperCase[k] = c]
    ELSE c

Lower(str) == [k \in 1..Len(str) |-> LowerChar(str[k])]

\* validate_email: ^[a-zA-Z0-9._%+-]+@[a-zA-Z0-9.-]+\.[a-zA-Z]{2,}$ matches
\* when some "@" at i and some "." at j split the string into a local part,
\* a domain and a suffix of at least two letters.
validate_email(email) ==
    \E i, j \in 1..Len(email) :
        /\ 1 < i /\ email[i] = "@"
        /\ i + 1 < j /\ email[j] = "."
        /\ Len(email) - j >= 2
        /\ \A k \in 1..(i - 1) :
              email[k] \in Letters \cup DigitChars \cup {".", "_", "%", "+", "-"}
        /\ \A k \in (i + 1)..(j - 1) :
              email[k] \in Letters \cup DigitChars \cup {".", "-"}
        /\ \A k \in (j + 1)..Len(email) : email[k] \in Letters

\* Lines 262-271: the checks of the request body.
RegisterBegin(p, data) ==
    /\ Free(p)
    /\ LET r == [op |-> "customer_register", pc |-> "done", code |-> 0,
                 error |-> "", data |-> data, existing_user |-> FALSE]
       IN  req' = [req EXCEPT ![p] =
              IF ~validate_email(data.email) \/ data.password_len < 6
              THEN Fail(r, 400, "ValidationError")
              ELSE [r EXCEPT !.pc = "rg_check"]]
    /\ nreq' = nreq + 1
    /\ UNCHANGED <<now, store, calc>>

\* Lines 273-276: find_one on the email as the request gives it.
RegisterCheck(p) ==
    /\ req[p].pc = "rg_check"
    /\ LET found == \E i \in 1..Len(users) : users[i].email = req[p].data.email
       IN  req' = [req EXCEPT ![p] =
              IF found
              THEN [Fail(req[p], 409, "Conflict") EXCEPT !.existing_user = TRUE]
              ELSE [req[p] EXCEPT !.pc = "rg_insert"]]
    /\ UNCHANGED <<now, store, nreq, calc>>

\* Lines 278-307: the customer is stored with the email lower-cased;
\* insert_one raises DuplicateKeyError when the index refuses it, which the
\* handler answers with 409.
RegisterInsert(p) ==
    /\ req[p].pc = "rg_insert"
    /\ LET customer == [id |-> Len(users) + 1,
                        email |-> Lower(req[p].data.email),
                        role |-> "customer"]
       IN  IF UsersIndexAllows(users, customer)
           THEN /\ users' = Append(users, customer)
                /\ req' = [req EXCEPT ![p] = Return(req[p], 201)]
           ELSE /\ users' = users
                /\ req' = [req EXCEPT ![p] = Fail(req[p], 409, "Conflict")]
    /\ UNCHANGED <<now, services, discounts, bookings, staff, attendance, oid, nreq, calc>>

-----------------------------------------------------------------------------
(* Role gating: src/app.py admin_required, customer_required *)

\* A mutant of admin_required: the wrapper lets every role through.
admin_required_any(role) == TRUE

\* Lines 150-159: the wrapper calls the handler only for the role claim
\* 'admin' of the verified token.
admin_required(role) == role = "admin"

\* Lines 162-171: the same for the role claim 'customer'.
customer_required(role) == role = "customer"

\* Lines 156-157 and 168-169: the wrapper answers 403 and the handler does
\* not run.
Forbidden(p, op) ==
    /\ Free(p)
    /\ req' = [req EXCEPT ![p] =
                  Fail([op |-> op, pc |-> "done", code |-> 0, error |-> ""],
                       403, "Forbidden")]
    /\ nreq' = nreq + 1
    /\ UNCHANGED <<now, store, calc>>

-----------------------------------------------------------------------------
(* Initial states *)

\* Day 2, 08:00.
StartClock == 2 * HoursPerDay + 8

\* A service as create_service stores it (base_price in cents, duration in
\* half minutes).
NewService(base_price) ==
    [exists |-> TRUE, status |-> "Active", base_price |-> base_price, title |-> 1,
     duration |-> 60]

InitIdle ==
    /\ users = <<>>
    /\ now = StartClock
    /\ bookings = <<>>
    /\ staff = [s \in StaffIds |-> NoStaff]
    /\ attendance = <<>>
    /\ req = [p \in Procs |-> Idle]
    /\ nreq = 0
    /\ calc = [done |-> FALSE]

-----------------------------------------------------------------------------
(* SpecPrice: the pricing resolver on one service and at most one discount *)

PriceBases == {100, 1000, 3300, 10000, 15000, 20000}
PriceValues == {1, 20, 33, 50, 100, 150}
PriceWindows == {<< <<0, 1>>, <<0, 2>> >>, << <<0, 3>>, <<0, 3>> >>}

InitPrice ==
    /\ InitIdle
    /\ \E b \in PriceBases :
          services = [s \in ServiceIds |-> IF s = 1 THEN NewService(b) ELSE NoService]
    /\ \/ discounts = <<>> /\ oid = 0
       \/ \E t \in {"percentage", "flat"}, v \in PriceValues,
             w \in PriceWindows, a \in BOOLEAN :
             /\ discounts = << [id |-> 1, service_id |-> 1, discount_type |-> t,
                                discount_value |-> v, start_date |-> w[1],
                                end_date |-> w[2], is_active |-> a] >>
             /\ oid = 1

NextPrice == \E s \in ServiceIds : ResolvePrice(s)

SpecPrice == InitPrice /\ [][NextPrice]_vars

-----------------------------------------------------------------------------
(* SpecFind: get_active_discount and calculate_booking_price on stores of   *)
(* up to two discounts, on several days                                     *)

\* The day of the server clock: the 1st, 2nd, 3rd or 10th.
FindDays == {1, 2, 3, 10}

\* Windows as create_discount accepts them: "01".."02", "02".."03",
\* "03".."03", and "1".."9" written without the leading zero.
FindWindows ==
    { << <<0, 1>>, <<0, 2>> >>, << <<0, 2>>, <<0, 3>> >>,
      << <<0, 3>>, <<0, 3>> >>, << <<1>>, <<9>> >> }

FindDiscounts ==
    { [service_id |-> s, discount_type |-> "flat", discount_value |-> v,
       start_date |-> w[1], end_date |-> w[2], is_active |-> a] :
         s \in ServiceIds, v \in {20, 30}, w \in FindWindows, a \in BOOLEAN }

\* Any store of up to two discounts: create_discount under two concurrent
\* requests, update_discount and delete_discount reach each of them.
InitFind ==
    /\ users = <<>>
    /\ \E d \in FindDays : now = d * HoursPerDay + 8
    /\ bookings = <<>>
    /\ staff = [s \in StaffIds |-> NoStaff]
    /\ attendance = <<>>
    /\ req = [p \in Procs |-> Idle]
    /\ nreq = 0
    /\ calc = [done |-> FALSE]
    /\ services = [s \in ServiceIds |-> NewService(10000)]
    /\ \/ discounts = <<>>
       \/ \E d1 \in FindDiscounts :
             discounts = << [id |-> 1] @@ d1 >>
       \/ \E d1, d2 \in FindDiscounts :
             discounts = << [id |-> 1] @@ d1, [id |-> 2] @@ d2 >>
    /\ oid = Len(discounts)

NextFind ==
    \/ \E s \in ServiceIds : ResolveDiscount(s)
    \/ \E s \in ServiceIds : ResolvePrice(s)

SpecFind == InitFind /\ [][NextFind]_vars

-----------------------------------------------------------------------------
(* SpecDisc: discount create, update and delete requests, two at a time *)

DiscWindows ==
    { << <<0, 1>>, <<0, 2>> >>, << <<0, 2>>, <<0, 3>> >>, << <<0, 3>>, <<0, 3>> >> }

DiscCreateInputs ==
    { [service_id |-> s, discount_type |-> "flat", discount_value |-> 20,
       start_date |-> w[1], end_date |-> w[2]] : s \in ServiceIds, w \in DiscWindows }
    \cup
    { [service_id |-> 1, discount_type |-> "percentage", discount_value |-> 150,
       start_date |-> <<0, 1>>, end_date |-> <<0, 2>>],
      [service_id |-> 1, discount_type |-> "flat", discount_value |-> 20,
       start_date |-> <<0, 3>>, end_date |-> <<0, 1>>] }

DiscUpdateInputs ==
    { [has |-> {"is_active"}, is_active |-> TRUE],
      [has |-> {"start_date"}, start_date |-> <<0, 3>>],
      [has |-> {"end_date"}, end_date |-> <<0, 2>>] }

DiscIds == 1..2

InitDisc ==
    /\ InitIdle
    /\ \E e \in BOOLEAN :
          services = [s \in ServiceIds |->
                        IF s = 1 \/ e THEN NewService(10000) ELSE NoService]
    /\ discounts = <<>>
    /\ oid = 0

\* The server takes one more request.
Accepting(max) == nreq < max

NextDisc ==
    \/ \E p \in Procs, data \in DiscCreateInputs :
          Accepting(MaxReqDisc) /\ CreateDiscountBegin(p, data)
    \/ \E p \in Procs : CreateDiscountCheck(p)
    \/ \E p \in Procs : CreateDiscountInsert(p)
    \/ \E p \in Procs, id \in DiscIds, data \in DiscUpdateInputs :
          Accepting(MaxReqDisc) /\ UpdateDiscountBegin(p, id, data)
    \/ \E p \in Procs : UpdateDiscountWrite(p)
    \/ \E p \in Procs, id \in DiscIds :
          Accepting(MaxReqDisc) /\ DeleteDiscount(p, id)

SpecDisc == InitDisc /\ [][NextDisc]_vars

-----------------------------------------------------------------------------
(* Specification of the validation of discounts: create and update requests *)
(* that differ in type, value and dates                                     *)

\* The requests: accepted ones (a flat 150, 50 percent), and one for each
\* rule of create_discount: an unknown type, a value of 0, 150 percent, a
\* day that does not exist, an end before the start written with two digits,
\* an end (the 9th) before the start (the 10th) written with one digit, and a
\* service that does not exist.
DiscValCreateInputs ==
    { [service_id |-> 1, discount_type |-> "flat", discount_value |-> 150,
       start_date |-> <<0, 1>>, end_date |-> <<0, 2>>],
      [service_id |-> 1, discount_type |-> "percentage", discount_value |-> 50,
       start_date |-> <<0, 3>>, end_date |-> <<0, 3>>],
      [service_id |-> 1, discount_type |-> "bogo", discount_value |-> 20,
       start_date |-> <<0, 1>>, end_date |-> <<0, 2>>],
      [service_id |-> 1, discount_type |-> "flat", discount_value |-> 0,
       start_date |-> <<0, 1>>, end_date |-> <<0, 2>>],
      [service_id |-> 1, discount_type |-> "percentage", discount_value |-> 150,
       start_date |-> <<0, 1>>, end_date |-> <<0, 2>>],
      [service_id |-> 1, discount_type |-> "flat", discount_value |-> 20,
       start_date |-> <<3, 2>>, end_date |-> <<0, 2>>],
      [service_id |-> 1, discount_type |-> "flat", discount_value |-> 20,
       start_date |-> <<0, 3>>, end_date |-> <<0, 1>>],
      [service_id |-> 1, discount_type |-> "flat", discount_value |-> 20,
       start_date |-> <<1, 0>>, end_date |-> <<9>>],
      [service_id |-> 2, discount_type |-> "flat", discount_value |-> 20,
       start_date |-> <<0, 1>>, end_date |-> <<0, 2>>] }

DiscValUpdateInputs ==
    { [has |-> {"discount_type"}, discount_type |-> "percentage"],
      [has |-> {"discount_type"}, discount_type |-> "flat"],
      [has |-> {"discount_value"}, discount_value |-> 150],
      [has |-> {"discount_value"}, discount_value |-> 0],
      [has |-> {"discount_type", "discount_value"},
       discount_type |-> "percentage", discount_value |-> 150] }

InitDiscVal ==
    /\ InitIdle
    /\ services = [s \in ServiceIds |->
                      IF s = 1 THEN NewService(10000) ELSE NoService]
    /\ discounts = <<>>
    /\ oid = 0

NextDiscVal ==
    \/ \E p \in Procs, data \in DiscValCreateInputs :
          Accepting(MaxReqVal) /\ CreateDiscountBegin(p, data)
    \/ \E p \in Procs : CreateDiscountCheck(p)
    \/ \E p \in Procs : CreateDiscountInsert(p)
    \/ \E p \in Procs, id \in DiscIds, data \in DiscValUpdateInputs :
          Accepting(MaxReqVal) /\ UpdateDiscountBegin(p, id, data)
    \/ \E p \in Procs : UpdateDiscountWrite(p)

SpecDiscVal == InitDiscVal /\ [][NextDiscVal]_vars

-----------------------------------------------------------------------------
(* SpecBook: booking create, customer cancel and admin setStatus requests,  *)
(* two at a time, beside service updates, discount deletes and the clock    *)

\* "09:00", "24:00" and "09:00" followed by a newline.
T09 == [hh |-> <<0, 9>>, tail |-> ""]
T24 == [hh |-> <<2, 4>>, tail |-> ""]
T09nl == [hh |-> <<0, 9>>, tail |-> "\n"]

BookCreateInputs ==
    { [service_id |-> 1, date |-> <<0, 2>>, time_slot |-> T09],
      [service_id |-> 1, date |-> <<0, 3>>, time_slot |-> T09],
      [service_id |-> 2, date |-> <<0, 2>>, time_slot |-> T09],
      [service_id |-> 1, date |-> <<3, 2>>, time_slot |-> T09],
      [service_id |-> 1, date |-> <<0, 3>>, time_slot |-> T24],
      [service_id |-> 1, date |-> <<0, 3>>, time_slot |-> T09nl] }

BookStatusInputs == {"Pending", "Confirmed", "Completed", "Cancelled", "Archived"}

BookServiceInputs ==
    { [has |-> {"status"}, status |-> "Inactive"],
      [has |-> {"base_price", "title"}, base_price |-> 5000, title |-> 2] }

BookIds == 1..2

\* The discounts of service 1 when the behaviour starts: a flat 20 that
\* covers today, and 50 percent from tomorrow on.
BookDiscounts ==
    << [id |-> 1, service_id |-> 1, discount_type |-> "flat",
        discount_value |-> 20, start_date |-> <<0, 1>>, end_date |-> <<0, 2>>,
        is_active |-> TRUE],
       [id |-> 2, service_id |-> 1, discount_type |-> "percentage",
        discount_value |-> 50, start_date |-> <<0, 3>>, end_date |-> <<0, 3>>,
        is_active |-> TRUE] >>

\* The bookings when the behaviour starts: none, or one that alice made for
\* service 1 tomorrow at 09 and that was cancelled since.
BookBookings ==
    { <<>>,
      << [id |-> 1, customer_id |-> "alice", service_id |-> 1,
          service_title |-> 1, date |-> <<0, 3>>, time_slot |-> T09,
          base_price |-> 10000, final_price |-> 10000,
          discount_applied |-> FALSE, status |-> "Cancelled"] >> }

InitBook ==
    /\ users = <<>>
    /\ now = StartClock
    /\ bookings \in BookBookings
    /\ staff = [s \in StaffIds |-> NoStaff]
    /\ attendance = <<>>
    /\ req = [p \in Procs |-> Idle]
    /\ nreq = 0
    /\ calc = [done |-> FALSE]
    /\ services = [s \in ServiceIds |->
                      IF s = 1 THEN NewService(10000) ELSE NoService]
    /\ discounts = BookDiscounts
    /\ oid = Len(discounts)

NextBook ==
    \/ \E p \in Procs, c \in CustomerIds, data \in BookCreateInputs :
          Accepting(MaxReqBook) /\ CreateBookingBegin(p, c, data)
    \/ \E p \in Procs : CreateBookingCheck(p)
    \/ \E p \in Procs : CreateBookingPrice(p)
    \/ \E p \in Procs : CreateBookingInsert(p)
    \/ \E p \in Procs, c \in CustomerIds, id \in BookIds :
          Accepting(MaxReqBook) /\ CancelBookingBegin(p, c, id)
    \/ \E p \in Procs : CancelBookingWrite(p)
    \/ \E p \in Procs, id \in BookIds, st \in BookStatusInputs :
          Accepting(MaxReqBook) /\ UpdateBookingStatus(p, id, st)
    \/ \E p \in Procs, sid \in ServiceIds :
          Accepting(MaxReqBook) /\ GetService(p, sid)
    \/ \E p \in Procs, data \in BookServiceInputs :
          Accepting(MaxReqBook) /\ UpdateService(p, 1, data)
    \/ \E p \in Procs : Accepting(MaxReqBook) /\ DeleteDiscount(p, 1)
    \/ Tick

SpecBook == InitBook /\ [][NextBook]_vars

-----------------------------------------------------------------------------
(* Specification of service deletion: delete_service among bookings being   *)
(* created, cancelled and set by the admin, with a store that may be        *)
(* unreachable                                                              *)

SvcCreateInputs ==
    { [service_id |-> 1, date |-> <<0, 3>>, time_slot |-> T09],
      [service_id |-> 1, date |-> <<0, 3>>, time_slot |-> T24] }

SvcStatusInputs == {"Pending", "Completed"}

\* The bookings when the behaviour starts: none, or one of service 1 that
\* alice made and that has been completed.
SvcBookings ==
    { <<>>,
      << [id |-> 1, customer_id |-> "alice", service_id |-> 1,
          service_title |-> 1, date |-> <<0, 3>>, time_slot |-> T09,
          base_price |-> 10000, final_price |-> 8000,
          discount_applied |-> TRUE, status |-> "Completed"] >> }

\* A discount for the days after the ones the stored discounts cover.
SvcDiscountInputs ==
    { [service_id |-> 1, discount_type |-> "flat", discount_value |-> 30,
       start_date |-> <<0, 4>>, end_date |-> <<0, 5>>] }

SvcDiscountUpdates ==
    { [has |-> {"discount_value"}, discount_value |-> 10] }

InitSvc ==
    /\ users = <<>>
    /\ now = StartClock
    /\ bookings \in SvcBookings
    /\ staff = [s \in StaffIds |-> NoStaff]
    /\ attendance = <<>>
    /\ req = [p \in Procs |-> Idle]
    /\ nreq = 0
    /\ calc = [done |-> FALSE]
    /\ services = [s \in ServiceIds |->
                      IF s = 1 THEN NewService(10000) ELSE NoService]
    /\ discounts = BookDiscounts
    /\ oid = Len(discounts)

NextSvc ==
    \/ \E p \in Procs, data \in SvcCreateInputs :
          Accepting(MaxReqSvc) /\ CreateBookingBegin(p, "alice", data)
    \/ \E p \in Procs : CreateBookingCheck(p)
    \/ \E p \in Procs : CreateBookingPrice(p)
    \/ \E p \in Procs : CreateBookingInsert(p)
    \/ \E p \in Procs : Accepting(MaxReqSvc) /\ CancelBookingBegin(p, "alice", 1)
    \/ \E p \in Procs : CancelBookingWrite(p)
    \/ \E p \in Procs, st \in SvcStatusInputs :
          Accepting(MaxReqSvc) /\ UpdateBookingStatus(p, 1, st)
    \/ \E p \in Procs, sid \in ServiceIds :
          Accepting(MaxReqSvc) /\ DeleteServiceBegin(p, sid)
    \/ \E p \in Procs : DeleteServiceCount(p)
    \/ \E p \in Procs : DeleteServiceDeactivate(p)
    \/ \E p \in Procs : DeleteServiceDelete(p)
    \/ \E p \in Procs : DeleteServiceDiscounts(p)
    \/ \E p \in Procs : Accepting(MaxReqSvc) /\ DeleteServiceLookupTimeout(p, 1)
    \/ \E p \in Procs : StoreTimeout(p)
    \/ \E p \in Procs : Accepting(MaxReqSvc) /\ DeleteDiscount(p, 1)
    \/ \E p \in Procs, data \in BookServiceInputs :
          Accepting(MaxReqSvc) /\ UpdateService(p, 1, data)
    \/ \E p \in Procs, data \in SvcDiscountInputs :
          Accepting(MaxReqSvc) /\ CreateDiscountBegin(p, data)
    \/ \E p \in Procs : CreateDiscountCheck(p)
    \/ \E p \in Procs : CreateDiscountInsert(p)
    \/ \E p \in Procs, data \in SvcDiscountUpdates :
          Accepting(MaxReqSvc) /\ UpdateDiscountBegin(p, 1, data)
    \/ \E p \in Procs : UpdateDiscountWrite(p)

SpecSvc == InitSvc /\ [][NextSvc]_vars

-----------------------------------------------------------------------------
(* SpecAtt: check-in, check-out and attendance-update requests, two at a    *)
(* time, beside staff deactivation                                          *)

\* "....-02", the same day written "....-2", and the malformed "....-32".
AttCheckinInputs ==
    { [staff_id |-> 1, date |-> <<0, 2>>, check_in_time |-> AbsentTime],
      [staff_id |-> 1, date |-> <<0, 2>>, check_in_time |-> T09],
      [staff_id |-> 1, date |-> <<2>>, check_in_time |-> T09],
      [staff_id |-> 2, date |-> <<0, 2>>, check_in_time |-> T09],
      [staff_id |-> 1, date |-> <<3, 2>>, check_in_time |-> T09],
      [staff_id |-> 1, date |-> <<0, 2>>, check_in_time |-> T24] }

AttCheckoutInputs ==
    { [staff_id |-> 1, date |-> <<0, 2>>, has |-> {}],
      [staff_id |-> 1, date |-> <<0, 2>>, has |-> {"attendance_status"},
       attendance_status |-> "Half-day"],
      [staff_id |-> 1, date |-> <<0, 2>>, has |-> {"attendance_status"},
       attendance_status |-> "Vacation"],
      [staff_id |-> 2, date |-> <<0, 2>>, has |-> {"check_out_time"},
       check_out_time |-> T24] }

AttUpdateInputs ==
    { [has |-> {"attendance_status"}, attendance_status |-> "Absent"],
      [has |-> {"attendance_status", "check_out_time"},
       attendance_status |-> "Vacation", check_out_time |-> T09],
      [has |-> {"check_out_time"}, check_out_time |-> NullTime],
      [has |-> {"check_in_time"}, check_in_time |-> T09nl] }

AttIds == 1..2

InitAtt ==
    /\ users = <<>>
    /\ now = StartClock
    /\ services = [s \in ServiceIds |-> NoService]
    /\ discounts = <<>>
    /\ oid = 0
    /\ bookings = <<>>
    /\ staff = [s \in StaffIds |-> NewStaff]
    /\ attendance = <<>>
    /\ req = [p \in Procs |-> Idle]
    /\ nreq = 0
    /\ calc = [done |-> FALSE]

NextAtt ==
    \/ \E p \in Procs, data \in AttCheckinInputs :
          Accepting(MaxReqAtt) /\ CheckinBegin(p, data)
    \/ \E p \in Procs : CheckinCheck(p)
    \/ \E p \in Procs : CheckinInsert(p)
    \/ \E p \in Procs, data \in AttCheckoutInputs :
          Accepting(MaxReqAtt) /\ CheckoutBegin(p, data)
    \/ \E p \in Procs : CheckoutWrite(p)
    \/ \E p \in Procs, id \in AttIds, data \in AttUpdateInputs :
          Accepting(MaxReqAtt) /\ UpdateAttendance(p, id, data)
    \/ \E p \in Procs, st \in StaffIds :
          Accepting(MaxReqAtt) /\ DeactivateStaff(p, st)

SpecAtt == InitAtt /\ [][NextAtt]_vars

\* Bodies of staff create requests: a stylist, a role that is not one, an
\* Inactive therapist, a status that is not one.
StaffCreateInputs ==
    {[role |-> "stylist", status |-> "Active"],
     [role |-> "barber", status |-> "Active"],
     [role |-> "therapist", status |-> "Inactive"],
     [role |-> "manager", status |-> "Vacation"]}

\* Bodies of staff update requests: a status, a role, and one of each that
\* is refused.
StaffUpdateInputs ==
    {[has |-> {"status"}, status |-> "Active", role |-> "none"],
     [has |-> {"status"}, status |-> "Vacation", role |-> "none"],
     [has |-> {"role"}, status |-> "none", role |-> "manager"],
     [has |-> {"role"}, status |-> "none", role |-> "barber"]}

\* One staff member; the other _id is not yet in use.
InitStaff ==
    /\ users = <<>>
    /\ now = StartClock
    /\ services = [s \in ServiceIds |-> NoService]
    /\ discounts = <<>>
    /\ oid = 0
    /\ bookings = <<>>
    /\ staff = [s \in StaffIds |-> IF s = 1 THEN NewStaff ELSE NoStaff]
    /\ attendance = <<>>
    /\ req = [p \in Procs |-> Idle]
    /\ nreq = 0
    /\ calc = [done |-> FALSE]

NextStaff ==
    \/ \E p \in Procs, data \in StaffCreateInputs :
          Accepting(MaxReqStaff) /\ CreateStaff(p, data)
    \/ \E p \in Procs, st \in StaffIds, data \in StaffUpdateInputs :
          Accepting(MaxReqStaff) /\ UpdateStaffBegin(p, st, data)
    \/ \E p \in Procs : UpdateStaffWrite(p)
    \/ \E p \in Procs, st \in StaffIds :
          Accepting(MaxReqStaff) /\ DeactivateStaff(p, st)

SpecStaff == InitStaff /\ [][NextStaff]_vars

\* "a@x.co" with the local part in either case, "b@x.co", and a string that
\* is not an address.
EmailA == <<"a", "@", "x", ".", "c", "o">>
EmailUpperA == <<"A", "@", "x", ".", "c", "o">>
EmailB == <<"b", "@", "x", ".", "c", "o">>
EmailBad == <<"a", "x", ".", "c", "o">>

\* Bodies of registration requests: the email and the length of the password.
RegisterInputs ==
    {[email |-> EmailA, password_len |-> 6],
     [email |-> EmailUpperA, password_len |-> 6],
     [email |-> EmailB, password_len |-> 6],
     [email |-> EmailBad, password_len |-> 6],
     [email |-> EmailB, password_len |-> 5]}

\* The admin of init_admin, with the default ADMIN_EMAIL "admin@salonshop.com".
AdminUser ==
    [id |-> 1,
     email |-> <<"a", "d", "m", "i", "n", "@", "s", "a", "l", "o", "n", "s",
                 "h", "o", "p", ".", "c", "o", "m">>,
     role |-> "admin"]

InitReg ==
    /\ users = <<AdminUser>>
    /\ now = StartClock
    /\ services = [s \in ServiceIds |-> NoService]
    /\ discounts = <<>>
    /\ oid = 0
    /\ bookings = <<>>
    /\ staff = [s \in StaffIds |-> NoStaff]
    /\ attendance = <<>>
    /\ req = [p \in Procs |-> Idle]
    /\ nreq = 0
    /\ calc = [done |-> FALSE]

NextReg ==
    \/ \E p \in Procs, data \in RegisterInputs :
          Accepting(MaxReqReg) /\ RegisterBegin(p, data)
    \/ \E p \in Procs : RegisterCheck(p)
    \/ \E p \in Procs : RegisterInsert(p)

SpecReg == InitReg /\ [][NextReg]_vars

-----------------------------------------------------------------------------
(* SpecCatalog: service create, update and delete requests, two at a time *)

\* Bodies of service create requests (duration in half minutes): 30 minutes
\* at 100; a price of 0; a duration of 0; the status "Archived"; a duration
\* of half a minute.
CatCreateInputs ==
    { [has |-> {}, title |-> 2, base_price |-> 10000, duration |-> 60],
      [has |-> {}, title |-> 2, base_price |-> 0, duration |-> 60],
      [has |-> {}, title |-> 2, base_price |-> 10000, duration |-> 0],
      [has |-> {"status"}, title |-> 2, base_price |-> 10000, duration |-> 60,
       status |-> "Archived"],
      [has |-> {}, title |-> 2, base_price |-> 10000, duration |-> 1] }

\* Bodies of service update requests.
CatUpdateInputs ==
    { [has |-> {"status"}, status |-> "Inactive"],
      [has |-> {"status"}, status |-> "Archived"],
      [has |-> {"base_price"}, base_price |-> 0],
      [has |-> {"duration"}, duration |-> 0],
      [has |-> {"base_price", "duration"}, base_price |-> 5000, duration |-> 90] }

\* Service 1 with a Pending booking of alice; the other _id is not in use.
\* No document refers to a service that has been removed, so the _id of a
\* removed service stands for a new one.
InitCatalog ==
    /\ users = <<>>
    /\ now = StartClock
    /\ services = [s \in ServiceIds |->
                      IF s = 1 THEN NewService(10000) ELSE NoService]
    /\ discounts = <<>>
    /\ oid = 0
    /\ bookings = << [id |-> 1, customer_id |-> "alice", service_id |-> 1,
                      service_title |-> 1, date |-> <<0, 3>>, time_slot |-> T09,
                      base_price |-> 10000, final_price |-> 10000,
                      discount_applied |-> FALSE, status |-> "Pending"] >>
    /\ staff = [s \in StaffIds |-> NoStaff]
    /\ attendance = <<>>
    /\ req = [p \in Procs |-> Idle]
    /\ nreq = 0
    /\ calc = [done |-> FALSE]

NextCatalog ==
    \/ \E p \in Procs, data \in CatCreateInputs :
          Accepting(MaxReqCat) /\ CreateService(p, data)
    \/ \E p \in Procs, sid \in ServiceIds, data \in CatUpdateInputs :
          Accepting(MaxReqCat) /\ UpdateService(p, sid, data)
    \/ \E p \in Procs, sid \in ServiceIds :
          Accepting(MaxReqCat) /\ DeleteServiceBegin(p, sid)
    \/ \E p \in Procs : DeleteServiceCount(p)
    \/ \E p \in Procs : DeleteServiceDeactivate(p)
    \/ \E p \in Procs : DeleteServiceDelete(p)
    \/ \E p \in Procs : DeleteServiceDiscounts(p)

SpecCatalog == InitCatalog /\ [][NextCatalog]_vars

-----------------------------------------------------------------------------
(* SpecRole: every route that writes, called by the admin and by a customer *)

\* The customer alice as customer_register stores her.
CustomerUser == [id |-> 2, email |-> EmailA, role |-> "customer"]

\* The user whose token the requests of worker p carry: the admin for p1,
\* alice for p2.
Caller(p) == IF p = "p1" THEN 1 ELSE 2

\* The role claim of the token, which the logins copy from the user (lines
\* 243 and 329).
claims_role(p) == users[Caller(p)].role

\* The customer_id a booking handler gets from the token.
claims_customer(p) == IF Caller(p) = 2 THEN "alice" ELSE "bob"

RoleServiceInput ==
    [has |-> {}, title |-> 2, base_price |-> 10000, duration |-> 60]
RoleServiceUpdate == [has |-> {"status"}, status |-> "Inactive"]
RoleStaffInput == [role |-> "stylist", status |-> "Active"]
RoleStaffUpdate == [has |-> {"status"}, status |-> "Inactive", role |-> "none"]
RoleCheckin == [staff_id |-> 1, date |-> <<0, 3>>, check_in_time |-> T09]
RoleCheckout == [staff_id |-> 1, date |-> <<0, 2>>, has |-> {}]
RoleAttendanceUpdate ==
    [has |-> {"attendance_status"}, attendance_status |-> "Absent"]
RoleBookingInput == [service_id |-> 1, date |-> <<0, 4>>, time_slot |-> T09]

\* Two services, the first with a Pending booking of alice for tomorrow and
\* with the discounts of BookDiscounts; one staff member, checked in today.
InitRole ==
    /\ users = <<AdminUser, CustomerUser>>
    /\ now = StartClock
    /\ services = [s \in ServiceIds |-> NewService(10000)]
    /\ discounts = BookDiscounts
    /\ oid = Len(discounts)
    /\ bookings = << [id |-> 1, customer_id |-> "alice", service_id |-> 1,
                      service_title |-> 1, date |-> <<0, 3>>, time_slot |-> T09,
                      base_price |-> 10000, final_price |-> 8000,
                      discount_applied |-> TRUE, status |-> "Pending"] >>
    /\ staff = [s \in StaffIds |-> IF s = 1 THEN NewStaff ELSE NoStaff]
    /\ attendance = << [id |-> 1, staff_id |-> 1, date |-> <<0, 2>>,
                        check_in_time |-> T09, check_out_time |-> NullTime,
                        attendance_status |-> "Present"] >>
    /\ req = [p \in Procs |-> Idle]
    /\ nreq = 0
    /\ calc = [done |-> FALSE]

NextRole ==
    \/ \E p \in Procs :
          Accepting(MaxReqRole) /\
          IF admin_required(claims_role(p))
          THEN CreateService(p, RoleServiceInput)
          ELSE Forbidden(p, "create_service")
    \/ \E p \in Procs :
          Accepting(MaxReqRole) /\
          IF admin_required(claims_role(p))
          THEN UpdateService(p, 1, RoleServiceUpdate)
          ELSE Forbidden(p, "update_service")
    \/ \E p \in Procs, sid \in ServiceIds :
          Accepting(MaxReqRole) /\
          IF admin_required(claims_role(p))
          THEN DeleteServiceBegin(p, sid)
          ELSE Forbidden(p, "delete_service")
    \/ \E p \in Procs : DeleteServiceCount(p)
    \/ \E p \in Procs : DeleteServiceDeactivate(p)
    \/ \E p \in Procs : DeleteServiceDelete(p)
    \/ \E p \in Procs : DeleteServiceDiscounts(p)
    \/ \E p \in Procs, data \in SvcDiscountInputs :
          Accepting(MaxReqRole) /\
          IF admin_required(claims_role(p))
          THEN CreateDiscountBegin(p, data)
          ELSE Forbidden(p, "create_discount")
    \/ \E p \in Procs : CreateDiscountCheck(p)
    \/ \E p \in Procs : CreateDiscountInsert(p)
    \/ \E p \in Procs, data \in SvcDiscountUpdates :
          Accepting(MaxReqRole) /\
          IF admin_required(claims_role(p))
          THEN UpdateDiscountBegin(p, 1, data)
          ELSE Forbidden(p, "update_discount")
    \/ \E p \in Procs : UpdateDiscountWrite(p)
    \/ \E p \in Procs :
          Accepting(MaxReqRole) /\
          IF admin_required(claims_role(p))
          THEN DeleteDiscount(p, 1)
          ELSE Forbidden(p, "delete_discount")
    \/ \E p \in Procs :
          Accepting(MaxReqRole) /\
          IF admin_required(claims_role(p))
          THEN CreateStaff(p, RoleStaffInput)
          ELSE Forbidden(p, "create_staff")
    \/ \E p \in Procs :
          Accepting(MaxReqRole) /\
          IF admin_required(claims_role(p))
          THEN UpdateStaffBegin(p, 1, RoleStaffUpdate)
          ELSE Forbidden(p, "update_staff")
    \/ \E p \in Procs : UpdateStaffWrite(p)
    \/ \E p \in Procs :
          Accepting(MaxReqRole) /\
          IF admin_required(claims_role(p))
          THEN DeactivateStaff(p, 1)
          ELSE Forbidden(p, "deactivate_staff")
    \/ \E p \in Procs :
          Accepting(MaxReqRole) /\
          IF admin_required(claims_role(p))
          THEN CheckinBegin(p, RoleCheckin)
          ELSE Forbidden(p, "attendance_checkin")
    \/ \E p \in Procs : CheckinCheck(p)
    \/ \E p \in Procs : CheckinInsert(p)
    \/ \E p \in Procs :
          Accepting(MaxReqRole) /\
          IF admin_required(claims_role(p))
          THEN CheckoutBegin(p, RoleCheckout)
          ELSE Forbidden(p, "attendance_checkout")
    \/ \E p \in Procs : CheckoutWrite(p)
    \/ \E p \in Procs :
          Accepting(MaxReqRole) /\
          IF admin_required(claims_role(p))
          THEN UpdateAttendance(p, 1, RoleAttendanceUpdate)
          ELSE Forbidden(p, "update_attendance")
    \/ \E p \in Procs :
          Accepting(MaxReqRole) /\
          IF admin_required(claims_role(p))
          THEN UpdateBookingStatus(p, 1, "Confirmed")
          ELSE Forbidden(p, "update_booking_status")
    \/ \E p \in Procs :
          Accepting(MaxReqRole) /\
          IF customer_required(claims_role(p))
          THEN CreateBookingBegin(p, claims_customer(p), RoleBookingInput)
          ELSE Forbidden(p, "create_booking")
    \/ \E p \in Procs : CreateBookingCheck(p)
    \/ \E p \in Procs : CreateBookingPrice(p)
    \/ \E p \in Procs : CreateBookingInsert(p)
    \/ \E p \in Procs :
          Accepting(MaxReqRole) /\
          IF customer_required(claims_role(p))
          THEN CancelBookingBegin(p, claims_customer(p), 1)
          ELSE Forbidden(p, "cancel_booking")
    \/ \E p \in Procs : CancelBookingWrite(p)

SpecRole == InitRole /\ [][NextRole]_vars

-----------------------------------------------------------------------------
(* Properties of the pricing resolver and of the discount window manager *)

\* The inclusive overlap of two date windows, as the data model states it.
WindowsOverlap(s1, e1, s2, e2) == StrLe(s1, e2) /\ StrLe(s2, e1)

\* C10: computeFinalPrice.  With a discount, a percentage gives
\* basePrice * (1 - value/100) and a flat one basePrice - value, floored at 0,
\* and discount_applied is true; with no discount the result is
\* (basePrice, false).  Prices in cents, basePrice a whole amount.
C10_ComputeFinalPrice ==
    calc.done =>
        LET i == get_active_discount(calc.service_id)
            units == calc.base_price \div 100
            v == discounts[i].discount_value
            raw == IF discounts[i].discount_type = "percentage"
                   THEN units * (100 - v)
                   ELSE (units - v) * 100
        IN  IF i = 0
            THEN calc.price = [final_price |-> calc.base_price,
                               discount_applied |-> FALSE]
            ELSE /\ calc.price.discount_applied
                 /\ calc.price.final_price = (IF raw < 0 THEN 0 ELSE raw)

\* Base 100 with a flat discount of 20 active today gives 80, applied.
C10_Witness ==
    /\ calc.done
    /\ calc.base_price = 10000
    /\ Len(discounts) = 1
    /\ discounts[1].discount_type = "flat"
    /\ discounts[1].discount_value = 20
    /\ calc.price = [final_price |-> 8000, discount_applied |-> TRUE]

\* C5: no two active discounts of one service have overlapping windows.
C5_NoActiveOverlap ==
    \A i, j \in 1..Len(discounts) :
        (/\ i < j
         /\ discounts[i].service_id = discounts[j].service_id
         /\ discounts[i].is_active
         /\ discounts[j].is_active)
        => ~WindowsOverlap(discounts[i].start_date, discounts[i].end_date,
                           discounts[j].start_date, discounts[j].end_date)

\* C6: a create request that finds, at its overlap pre-check, an active
\* discount of the same service whose window overlaps the requested one ends
\* with 409 and inserts nothing; one that finds none goes on to insert the
\* requested discount with is_active = true.
C6_CreateRejectsOverlap ==
    [][\A p \in Procs :
          /\ (req[p].pc = "cd_check" /\ req'[p].pc # "cd_check") =>
                LET data == req[p].data
                    clash == \E i \in 1..Len(discounts) :
                                /\ discounts[i].service_id = data.service_id
                                /\ discounts[i].is_active
                                /\ WindowsOverlap(discounts[i].start_date,
                                                  discounts[i].end_date,
                                                  data.start_date, data.end_date)
                IN  IF clash
                    THEN /\ req'[p].pc = "done"
                         /\ req'[p].code = 409
                         /\ discounts' = discounts
                    ELSE req'[p].pc = "cd_insert"
          /\ (req[p].pc = "cd_insert" /\ req'[p].pc # "cd_insert") =>
                /\ req'[p].code = 201
                /\ Len(discounts') = Len(discounts) + 1
                /\ SubSeq(discounts', 1, Len(discounts)) = discounts
                /\ LET d == discounts'[Len(discounts')]
                   IN  /\ d.is_active
                       /\ d.service_id = req[p].data.service_id
                       /\ d.start_date = req[p].data.start_date
                       /\ d.end_date = req[p].data.end_date
      ]_vars

\* A create was refused with 409 while the store holds an accepted discount
\* whose window overlaps that of an inactive discount of the same service.
C6_Witness ==
    /\ \E p \in Procs : req[p].op = "create_discount" /\ req[p].code = 409
    /\ \E i, j \in 1..Len(discounts) :
          /\ i < j
          /\ discounts[i].service_id = discounts[j].service_id
          /\ ~discounts[i].is_active
          /\ discounts[j].is_active
          /\ WindowsOverlap(discounts[i].start_date, discounts[i].end_date,
                            discounts[j].start_date, discounts[j].end_date)

-----------------------------------------------------------------------------
(* Properties of the booking state machine *)

SameSlot(a, b) ==
    /\ a.service_id = b.service_id
    /\ a.date = b.date
    /\ a.time_slot = b.time_slot

\* The request of p performs its insert_one in this step.
InsertStep(p) == req[p].pc = "cb_insert" /\ req'[p].pc = "done"

\* p receives a create-booking request in this step.
CreateReceived(p) ==
    /\ nreq' = nreq + 1
    /\ req'[p] # req[p]
    /\ req'[p].op = "create_booking"

\* C1: for any (service_id, date, time_slot), at most one booking whose
\* status is not Cancelled exists.
C1_SlotUnique ==
    \A i, j \in 1..Len(bookings) :
        (i < j /\ SameSlot(bookings[i], bookings[j]))
        => (bookings[i].status = "Cancelled" \/ bookings[j].status = "Cancelled")

\* A booking that is not Cancelled holds a slot and a create request for the
\* same slot has been refused.
C1_Witness ==
    \E p \in Procs, i \in 1..Len(bookings) :
        /\ req[p].op = "create_booking"
        /\ req[p].code = 409
        /\ SameSlot(bookings[i], req[p].data)
        /\ bookings[i].status # "Cancelled"

\* C2 as stated: of the create requests for one slot that have all passed
\* the pre-check before any of them inserted, exactly one succeeds, that is,
\* the first of them to insert is accepted (201), and every insert ends with
\* 201 or with 409 SlotTaken.
C2_ExactlyOneSucceeds ==
    [][\A p \in Procs :
          InsertStep(p) =>
            /\ \/ req'[p].code = 201
               \/ req'[p].code = 409 /\ req'[p].error = "SlotTaken"
            /\ \A q \in Procs \ {p} :
                  (/\ req[q].pc \in {"cb_price", "cb_insert"}
                   /\ SameSlot(req[q].data, req[p].data))
                  => req'[p].code = 201
      ]_vars

\* C2 as amended: an insert is accepted (201, one booking more) exactly when
\* no booking of any status, Cancelled included, holds the slot, and ends
\* with 409 SlotTaken, the store unchanged, otherwise; so of the requests
\* racing for a slot at most one succeeds, and none does when a Cancelled
\* booking holds the slot.
C2_AtMostOneSucceeds ==
    [][\A p \in Procs :
          InsertStep(p) =>
            IF \E i \in 1..Len(bookings) : SameSlot(bookings[i], req[p].data)
            THEN /\ req'[p].code = 409
                 /\ req'[p].error = "SlotTaken"
                 /\ bookings' = bookings
            ELSE /\ req'[p].code = 201
                 /\ Len(bookings') = Len(bookings) + 1
                 /\ SameSlot(bookings'[Len(bookings')], req[p].data)
      ]_vars

\* One request has inserted its booking (201) while another request for the
\* same slot, past its pre-check, still has its insert to do.
C2_Witness ==
    \E p, q \in Procs :
        /\ p # q
        /\ req[p].op = "create_booking" /\ req[p].code = 201
        /\ req[q].pc = "cb_insert"
        /\ SameSlot(req[q].data, req[p].data)
        /\ \E i \in 1..Len(bookings) :
              SameSlot(bookings[i], req[q].data) /\ bookings[i].status = "Pending"

\* C7: a successful create inserts exactly one booking, Pending, of the
\* requester, with the base_price and title of the service as the request
\* read it and the price the resolver gave for it: the discounted price and
\* true when an active discount of the service covers today, the base price
\* and false otherwise.
C7_CreateInsertsPending ==
    [][\A p \in Procs :
          /\ (CreateReceived(p) /\ req'[p].pc = "cb_check") =>
                req'[p].service = services[req'[p].data.service_id]
          /\ (req[p].pc = "cb_price" /\ req'[p].pc = "cb_insert") =>
                LET sid == req[p].data.service_id
                    base == req[p].service.base_price
                    cover == {i \in 1..Len(discounts) :
                                /\ discounts[i].service_id = sid
                                /\ discounts[i].is_active
                                /\ StrLe(discounts[i].start_date, Today)
                                /\ StrLe(Today, discounts[i].end_date)}
                IN  IF cover = {}
                    THEN req'[p].price = [final_price |-> base,
                                          discount_applied |-> FALSE]
                    ELSE /\ req'[p].price.discount_applied
                         /\ \E i \in cover :
                               req'[p].price.final_price =
                                 calculate_discounted_price(base,
                                     discounts[i].discount_type,
                                     discounts[i].discount_value)
          /\ (InsertStep(p) /\ req'[p].code = 201) =>
                /\ Len(bookings') = Len(bookings) + 1
                /\ SubSeq(bookings', 1, Len(bookings)) = bookings
                /\ LET b == bookings'[Len(bookings')]
                   IN  /\ b.status = "Pending"
                       /\ b.customer_id = req[p].customer_id
                       /\ SameSlot(b, req[p].data)
                       /\ b.base_price = req[p].service.base_price
                       /\ b.service_title = req[p].service.title
                       /\ b.final_price = req[p].price.final_price
                       /\ b.discount_applied = req[p].price.discount_applied
      ]_vars

\* A create has succeeded and its booking carries the discounted price:
\* base 100 less a flat 20.
C7_Witness ==
    \E p \in Procs, i \in 1..Len(bookings) :
        /\ req[p].op = "create_booking" /\ req[p].code = 201
        /\ SameSlot(bookings[i], req[p].data)
        /\ bookings[i].customer_id = req[p].customer_id
        /\ bookings[i].status = "Pending"
        /\ bookings[i].base_price = 10000
        /\ bookings[i].final_price = 8000
        /\ bookings[i].discount_applied

\* A time string of the form HH:MM and nothing else.
WellFormedTime(s) == HourField(s.hh) /\ s.tail = ""

\* C8: a create request fails with ValidationError when the date or the
\* time is malformed or the slot is not after now, else with NotFound when
\* the service does not exist, else with ServiceUnavailable when it is not
\* Active, else with SlotTaken when a booking that is not Cancelled holds the
\* slot; a failed create changes nothing in the store.
C8_CreateFailures ==
    [][\A p \in Procs :
          /\ CreateReceived(p) =>
                LET data == req'[p].data
                IN  IF \/ ~validate_date_format(data.date)
                       \/ ~WellFormedTime(data.time_slot)
                       \/ combine_date_time(data.date, data.time_slot) <= now
                    THEN req'[p].code = 400 /\ req'[p].error = "ValidationError"
                    ELSE IF ~services[data.service_id].exists
                    THEN req'[p].code = 404 /\ req'[p].error = "NotFound"
                    ELSE IF services[data.service_id].status # "Active"
                    THEN req'[p].code = 400 /\ req'[p].error = "ServiceUnavailable"
                    ELSE req'[p].pc = "cb_check"
          /\ (req[p].pc = "cb_check" /\ req'[p].pc # "cb_check") =>
                IF \E i \in 1..Len(bookings) :
                      /\ SameSlot(bookings[i], req[p].data)
                      /\ bookings[i].status # "Cancelled"
                THEN /\ req'[p].pc = "done"
                     /\ req'[p].code = 409 /\ req'[p].error = "SlotTaken"
                ELSE req'[p].pc = "cb_price"
          /\ (/\ req'[p] # req[p]
              /\ req'[p].op = "create_booking"
              /\ req'[p].pc = "done"
              /\ req'[p].code # 201) => store' = store
      ]_vars

\* One create has failed with ServiceUnavailable and another with NotFound.
C8_Witness ==
    \E p, q \in Procs :
        /\ req[p].op = "create_booking" /\ req[p].error = "ServiceUnavailable"
        /\ req[q].op = "create_booking" /\ req[q].error = "NotFound"

\* C9: the final price the public service read reports equals the
\* final_price that create_booking's pricing gives for the service in the
\* same store state on the same day.
C9_ReadPriceIsBookingPrice ==
    [][\A p \in Procs :
          (/\ req'[p] # req[p]
           /\ req'[p].op = "get_service"
           /\ req'[p].code = 200)
          => req'[p].final_price =
               calculate_booking_price(req'[p].service_id,
                                       services[req'[p].service_id]).final_price
      ]_vars

\* The public read has reported 80 for the service of base price 100 while a
\* booking of that service stores the final price 80.
C9_Witness ==
    \E p \in Procs, i \in 1..Len(bookings) :
        /\ req[p].op = "get_service" /\ req[p].code = 200
        /\ req[p].final_price = 8000
        /\ services[req[p].service_id].base_price = 10000
        /\ bookings[i].service_id = req[p].service_id
        /\ bookings[i].final_price = 8000
        /\ bookings[i].discount_applied

-----------------------------------------------------------------------------
(* Properties of the attendance register *)

\* The request of p performs the insert_one of its check-in in this step.
CheckinInsertStep(p) == req[p].pc = "ci_insert" /\ req'[p].pc = "done"

C4_ConcurrentCheckin ==
    [][\A p \in Procs :
          CheckinInsertStep(p) =>
            IF \E i \in 1..Len(attendance) : SameDay(attendance[i], req[p].data)
            THEN req'[p].code = 409 /\ req'[p].error = "AlreadyCheckedIn"
            ELSE req'[p].code = 201
      ]_vars

-----------------------------------------------------------------------------
(* Validation of discounts *)

\* p receives a create-discount request in this step.
CreateDiscountReceived(p) ==
    /\ nreq' = nreq + 1
    /\ req'[p] # req[p]
    /\ req'[p].op = "create_discount"

\* C19: every stored discount has discount_value > 0 and, when its type is
\* percentage, discount_value <= 100.
C19_StoredValueInRange ==
    \A i \in 1..Len(discounts) :
        /\ discounts[i].discount_value > 0
        /\ discounts[i].discount_type = "percentage"
              => discounts[i].discount_value <= 100

\* C20: a create request for a service that does not exist is rejected with
\* NotFound; one for an existing service is rejected with ValidationError
\* when the type is neither percentage nor flat, the value is not above 0,
\* the type is percentage and the value is above 100, a date names no day,
\* or the start day is after the end day; a rejected request inserts
\* nothing.
C20_CreateValidation ==
    [][\A p \in Procs :
          CreateDiscountReceived(p) =>
            LET data == req'[p].data
            IN  /\ discounts' = discounts
                /\ ~services[data.service_id].exists =>
                      /\ req'[p].pc = "done"
                      /\ req'[p].code = 404 /\ req'[p].error = "NotFound"
                /\ (/\ services[data.service_id].exists
                    /\ \/ data.discount_type \notin {"percentage", "flat"}
                       \/ data.discount_value <= 0
                       \/ /\ data.discount_type = "percentage"
                          /\ data.discount_value > 100
                       \/ ~validate_date_format(data.start_date)
                       \/ ~validate_date_format(data.end_date)
                       \/ DigitsValue(data.start_date) > DigitsValue(data.end_date))
                   => /\ req'[p].pc = "done"
                      /\ req'[p].code = 400
                      /\ req'[p].error = "ValidationError"
      ]_vars

-----------------------------------------------------------------------------
(* Attendance: check-in and check-out *)

\* p receives a check-in request in this step.
CheckinReceived(p) ==
    /\ nreq' = nreq + 1
    /\ req'[p] # req[p]
    /\ req'[p].op = "attendance_checkin"

\* p receives a check-out request in this step.
CheckoutReceived(p) ==
    /\ nreq' = nreq + 1
    /\ req'[p] # req[p]
    /\ req'[p].op = "attendance_checkout"

\* The request of p performs its update_one in this step.
CheckoutWriteStep(p) == req[p].pc = "co_write" /\ req'[p].pc = "done"

\* A record for the (staff_id, date) of data exists.
HasRecord(data) ==
    \E i \in 1..Len(attendance) : SameDay(attendance[i], data)

\* C17: a check-in with a well-formed date and time fails with NotFound
\* when the staff member does not exist or is soft-deleted, fails with
\* AlreadyCheckedIn exactly when a record for (staff_id, date) exists, at the
\* pre-check and at the insert alike, both failures changing nothing, and
\* otherwise appends exactly one record, Present, check_out_time null.
C17_CheckIn ==
    [][\A p \in Procs :
          /\ (CheckinReceived(p) /\ validate_date_format(req'[p].data.date)) =>
                /\ attendance' = attendance
                /\ IF \/ ~staff[req'[p].data.staff_id].exists
                      \/ staff[req'[p].data.staff_id].is_deleted
                   THEN /\ req'[p].pc = "done"
                        /\ req'[p].code = 404 /\ req'[p].error = "NotFound"
                   ELSE req'[p].pc = "ci_check"
          /\ (req[p].pc = "ci_check" /\ req'[p].pc # "ci_check") =>
                /\ attendance' = attendance
                /\ IF HasRecord(req[p].data)
                   THEN /\ req'[p].pc = "done"
                        /\ req'[p].code = 409
                        /\ req'[p].error = "AlreadyCheckedIn"
                   ELSE req'[p].error # "AlreadyCheckedIn"
          /\ CheckinInsertStep(p) =>
                IF HasRecord(req[p].data)
                THEN /\ req'[p].code = 409
                     /\ req'[p].error = "AlreadyCheckedIn"
                     /\ attendance' = attendance
                ELSE /\ req'[p].code = 201
                     /\ Len(attendance') = Len(attendance) + 1
                     /\ SubSeq(attendance', 1, Len(attendance)) = attendance
                     /\ LET a == attendance'[Len(attendance')]
                        IN  /\ SameDay(a, req[p].data)
                            /\ a.attendance_status = "Present"
                            /\ a.check_out_time = NullTime
      ]_vars

\* C18: a check-out with a well-formed date fails with NotFound when no
\* record for (staff_id, date) exists; a supplied status outside Present,
\* Absent, Half-day is rejected with ValidationError; a failed check-out
\* changes nothing; a successful one sets check_out_time, sets
\* attendance_status to the supplied value or leaves it as it is when none
\* is supplied, and changes nothing else; no record is created or removed.
C18_CheckOut ==
    [][\A p \in Procs :
          /\ (CheckoutReceived(p) /\ validate_date_format(req'[p].data.date)) =>
                /\ attendance' = attendance
                /\ ~HasRecord(req'[p].data) =>
                      /\ req'[p].pc = "done"
                      /\ req'[p].code = 404 /\ req'[p].error = "NotFound"
                /\ (/\ HasRecord(req'[p].data)
                    /\ "attendance_status" \in req'[p].data.has
                    /\ req'[p].data.attendance_status
                          \notin {"Present", "Absent", "Half-day"}) =>
                      /\ req'[p].pc = "done"
                      /\ req'[p].code = 400
                      /\ req'[p].error = "ValidationError"
          /\ CheckoutWriteStep(p) =>
                /\ req'[p].code = 200
                /\ HasRecord(req[p].data)
                /\ Len(attendance') = Len(attendance)
                /\ \A i \in 1..Len(attendance) :
                      IF SameDay(attendance[i], req[p].data)
                      THEN attendance'[i] =
                             [attendance[i] EXCEPT
                                !.check_out_time = req[p].check_out_time,
                                !.attendance_status =
                                   IF "attendance_status" \in req[p].data.has
                                   THEN req[p].data.attendance_status
                                   ELSE attendance[i].attendance_status]
                      ELSE attendance'[i] = attendance[i]
      ]_vars

-----------------------------------------------------------------------------
(* Booking state machine: cancel and admin setStatus *)

\* p receives a customer cancel request in this step.
CancelReceived(p) ==
    /\ nreq' = nreq + 1
    /\ req'[p] # req[p]
    /\ req'[p].op = "cancel_booking"

\* The request of p performs its update_one in this step.
CancelWriteStep(p) == req[p].pc = "cn_write" /\ req'[p].pc = "done"

\* p receives an admin setStatus request in this step.
StatusReceived(p) ==
    /\ nreq' = nreq + 1
    /\ req'[p] # req[p]
    /\ req'[p].op = "update_booking_status"

\* The step is the handling of an admin setStatus request by p, possibly the
\* same request as the one p handled before.
StatusStep(p) ==
    /\ nreq' = nreq + 1
    /\ req'[p].op = "update_booking_status"
    /\ \A q \in Procs \ {p} : req'[q] = req[q]

Terminal == {"Completed", "Cancelled"}

\* C11 as stated: a customer cancel request on a booking that is Completed
\* or Cancelled fails with InvalidTransition whoever the caller is, the owner
\* or not, and leaves the bookings unchanged.
C11_InvalidTransitionAnyCaller ==
    [][\A p \in Procs :
          (/\ CancelReceived(p)
           /\ req'[p].booking_id \in DOMAIN bookings
           /\ bookings[req'[p].booking_id].status \in Terminal)
          => /\ req'[p].pc = "done"
             /\ req'[p].error = "InvalidTransition"
             /\ bookings' = bookings
      ]_vars

\* C11 as amended: a customer cancel request on a booking that is Completed
\* or Cancelled fails and leaves the bookings unchanged: with
\* InvalidTransition when the caller owns the booking, with Forbidden when
\* the caller does not (the ownership check comes first).
C11_InvalidTransitionForOwner ==
    [][\A p \in Procs :
          (/\ CancelReceived(p)
           /\ req'[p].booking_id \in DOMAIN bookings
           /\ bookings[req'[p].booking_id].status \in Terminal)
          => /\ req'[p].pc = "done"
             /\ bookings' = bookings
             /\ IF bookings[req'[p].booking_id].customer_id = req'[p].customer_id
                THEN req'[p].code = 400 /\ req'[p].error = "InvalidTransition"
                ELSE req'[p].code = 403 /\ req'[p].error = "Forbidden"
      ]_vars

\* The owner's cancel of a Completed booking has failed with
\* InvalidTransition, and another caller's cancel of a Cancelled booking has
\* failed with Forbidden.
C11_Witness ==
    \E p, q \in Procs :
        /\ req[p].op = "cancel_booking" /\ req[p].error = "InvalidTransition"
        /\ req[p].booking.status = "Completed"
        /\ req[p].booking.customer_id = req[p].customer_id
        /\ req[q].op = "cancel_booking" /\ req[q].error = "Forbidden"
        /\ req[q].booking.status = "Cancelled"

\* C12: a customer cancel request by the owner of a Pending or Confirmed
\* booking whose slot instant is not strictly after the current time fails
\* with PastBooking and leaves the bookings unchanged.
C12_PastBooking ==
    [][\A p \in Procs :
          (/\ CancelReceived(p)
           /\ req'[p].booking_id \in DOMAIN bookings
           /\ LET b == bookings[req'[p].booking_id]
              IN  /\ b.status \in {"Pending", "Confirmed"}
                  /\ b.customer_id = req'[p].customer_id
                  /\ combine_date_time(b.date, b.time_slot) <= now)
          => /\ req'[p].pc = "done"
             /\ req'[p].code = 400
             /\ req'[p].error = "PastBooking"
             /\ bookings' = bookings
      ]_vars

\* The owner's cancel of a Confirmed booking whose slot is this very hour
\* has failed with PastBooking and the booking is still Confirmed.
C12_Witness ==
    \E p \in Procs :
        /\ req[p].op = "cancel_booking" /\ req[p].error = "PastBooking"
        /\ req[p].booking.customer_id = req[p].customer_id
        /\ req[p].booking.status = "Confirmed"
        /\ combine_date_time(req[p].booking.date, req[p].booking.time_slot) = now
        /\ bookings[req[p].booking_id].status = "Confirmed"

\* C13: a customer cancel request by a requester who is not the booking's
\* customer fails with Forbidden and changes nothing, and the cancel
\* operation writes a booking only for a requester who is its customer.
C13_CancelOnlyByOwner ==
    [][\A p \in Procs :
          /\ (/\ CancelReceived(p)
              /\ req'[p].booking_id \in DOMAIN bookings
              /\ bookings[req'[p].booking_id].customer_id # req'[p].customer_id)
             => /\ req'[p].pc = "done"
                /\ req'[p].code = 403
                /\ req'[p].error = "Forbidden"
                /\ bookings' = bookings
          /\ CancelReceived(p) => bookings' = bookings
          /\ CancelWriteStep(p) =>
                /\ bookings[req[p].booking_id].customer_id = req[p].customer_id
                /\ \A i \in DOMAIN bookings :
                      i # req[p].booking_id => bookings'[i] = bookings[i]
      ]_vars

\* One customer's cancel of a booking has failed with Forbidden, the
\* owner's cancel of the same booking has succeeded.
C13_Witness ==
    \E p, q \in Procs :
        /\ req[p].op = "cancel_booking" /\ req[p].error = "Forbidden"
        /\ req[q].op = "cancel_booking" /\ req[q].code = 200
        /\ req[p].booking_id = req[q].booking_id
        /\ req[q].customer_id = bookings[req[q].booking_id].customer_id
        /\ bookings[req[q].booking_id].status = "Cancelled"

\* C14: admin setStatus on an existing booking with a new status among
\* Pending, Confirmed, Completed and Cancelled succeeds whatever the current
\* status is, and the booking then has the new status, nothing else changed;
\* any other new status is rejected with ValidationError, the bookings
\* unchanged.
C14_AdminSetStatus ==
    [][\A p \in Procs :
          StatusReceived(p) =>
            LET id == req'[p].booking_id
                st == req'[p].status
            IN  IF st \in {"Pending", "Confirmed", "Completed", "Cancelled"}
                THEN id \in DOMAIN bookings =>
                        /\ req'[p].code = 200
                        /\ bookings' = [bookings EXCEPT ![id].status = st]
                ELSE /\ req'[p].code = 400
                     /\ req'[p].error = "ValidationError"
                     /\ bookings' = bookings
      ]_vars

\* An admin has set a booking to Completed and then back to Pending, and
\* has reopened a Cancelled booking.
C14_Witness ==
    \E p, q \in Procs :
        /\ p # q
        /\ req[p].op = "update_booking_status" /\ req[p].code = 200
        /\ req[p].status = "Completed"
        /\ req[q].op = "update_booking_status" /\ req[q].code = 200
        /\ req[q].status = "Pending"
        /\ req[p].booking_id = req[q].booking_id
        /\ bookings[req[q].booking_id].status = "Pending"

\* C15 as stated: once a booking is Completed or Cancelled no step changes
\* its status.
C15_TerminalStates ==
    [][\A i \in DOMAIN bookings :
          bookings[i].status \in Terminal
          => bookings'[i].status = bookings[i].status
      ]_vars

\* C15 as amended: Completed and Cancelled are terminal for the customer
\* cancel requests that find the booking in that state: such a request
\* never reaches its write.  The status of a Completed or Cancelled booking
\* changes only by a successful admin setStatus, to the status it names, or
\* by the write of a cancel request that loaded the booking while it was
\* Pending or Confirmed (an admin completed it in between), to Cancelled.
C15_TerminalForCancel ==
    [][/\ \A p \in Procs :
            /\ (/\ CancelReceived(p)
                /\ req'[p].booking_id \in DOMAIN bookings
                /\ bookings[req'[p].booking_id].status \in Terminal)
               => req'[p].pc = "done" /\ req'[p].code # 200
            /\ CancelWriteStep(p) =>
                  req[p].booking.status \in {"Pending", "Confirmed"}
       /\ \A i \in DOMAIN bookings :
            (bookings[i].status \in Terminal
             /\ bookings'[i].status # bookings[i].status)
            => \/ \E p \in Procs :
                    /\ StatusStep(p)
                    /\ req'[p].code = 200
                    /\ req'[p].booking_id = i
                    /\ bookings'[i].status = req'[p].status
               \/ \E p \in Procs :
                    /\ CancelWriteStep(p)
                    /\ req[p].booking_id = i
                    /\ bookings[i].status = "Completed"
                    /\ bookings'[i].status = "Cancelled"
      ]_vars

\* A customer cancel that loaded the booking as Pending has written
\* Cancelled over the Completed an admin had set in between.
C15_Witness ==
    \E p, q \in Procs :
        /\ req[p].op = "cancel_booking" /\ req[p].code = 200
        /\ req[p].booking.status = "Pending"
        /\ req[q].op = "update_booking_status" /\ req[q].code = 200
        /\ req[q].status = "Completed"
        /\ req[q].booking_id = req[p].booking_id
        /\ bookings[req[p].booking_id].status = "Cancelled"

\* C16: bookings are never removed and keep their triple, and a create
\* request that gets as far as the slot checks for a triple that a booking
\* holds, a Cancelled one included, ends with SlotTaken (409) and inserts
\* nothing: a slot that was booked and then cancelled is never rebooked.
C16_CancelledSlotNeverRebooked ==
    [][/\ \A i \in DOMAIN bookings :
            i \in DOMAIN bookings' /\ SameSlot(bookings'[i], bookings[i])
       /\ \A p \in Procs :
            (/\ req[p].op = "create_booking"
             /\ req[p].pc \in {"cb_check", "cb_price", "cb_insert"}
             /\ req'[p].pc = "done"
             /\ \E i \in DOMAIN bookings : SameSlot(bookings[i], req[p].data))
            => /\ req'[p].code = 409
               /\ req'[p].error = "SlotTaken"
               /\ bookings' = bookings
      ]_vars

\* A customer has cancelled a booking, it is still Cancelled, and a create
\* request for its slot has passed the pre-check and been refused by the
\* insert with SlotTaken.
C16_Witness ==
    \E p, q \in Procs :
        /\ req[q].op = "cancel_booking" /\ req[q].code = 200
        /\ bookings[req[q].booking_id].status = "Cancelled"
        /\ req[p].op = "create_booking"
        /\ req[p].code = 409 /\ req[p].error = "SlotTaken"
        /\ req[p].price.final_price > 0
        /\ SameSlot(bookings[req[q].booking_id], req[p].data)


-----------------------------------------------------------------------------
(* Soft delete of discounts *)

\* p receives a delete-discount request in this step.
DeleteDiscountReceived(p) ==
    /\ nreq' = nreq + 1
    /\ req'[p] # req[p]
    /\ req'[p].op = "delete_discount"

\* The active discounts of service sid whose window covers today.
CoveringActive(sid) ==
    {i \in 1..Len(discounts) :
        /\ discounts[i].service_id = sid
        /\ discounts[i].is_active
        /\ StrLe(discounts[i].start_date, Today)
        /\ StrLe(Today, discounts[i].end_date)}

\* C21: a discount delete sets is_active to false on the discount named and
\* changes nothing else: the record stays, with its other fields, and so does
\* every other discount; on an inactive discount it changes nothing; and the
\* pricing resolver, in the public read and in create_booking, applies no
\* discount to a service none of whose active discounts covers today.
C21_DeleteDisables ==
    [][\A p \in Procs :
          /\ DeleteDiscountReceived(p) =>
                LET hit == {i \in 1..Len(discounts) :
                              discounts[i].id = req'[p].discount_id}
                IN  /\ Len(discounts') = Len(discounts)
                    /\ \A i \in 1..Len(discounts) :
                          IF i \in hit
                          THEN discounts'[i] =
                                 [discounts[i] EXCEPT !.is_active = FALSE]
                          ELSE discounts'[i] = discounts[i]
                    /\ hit # {} => req'[p].code = 200
          /\ (/\ nreq' = nreq + 1
              /\ req'[p] # req[p]
              /\ req'[p].op = "get_service"
              /\ req'[p].code = 200
              /\ CoveringActive(req'[p].service_id) = {})
             => req'[p].final_price = services[req'[p].service_id].base_price
          /\ (/\ req[p].pc = "cb_price"
              /\ req'[p].pc = "cb_insert"
              /\ CoveringActive(req[p].data.service_id) = {})
             => req'[p].price = [final_price |-> req[p].service.base_price,
                                 discount_applied |-> FALSE]
      ]_vars

\* A discount whose window covers today has been deleted: it is still in
\* the store, inactive, and the public read of its service has reported the
\* base price.
C21_Witness ==
    \E p, q \in Procs, i \in 1..Len(discounts) :
        /\ req[p].op = "delete_discount" /\ req[p].code = 200
        /\ discounts[i].id = req[p].discount_id
        /\ ~discounts[i].is_active
        /\ StrLe(discounts[i].start_date, Today)
        /\ StrLe(Today, discounts[i].end_date)
        /\ req[q].op = "get_service" /\ req[q].code = 200
        /\ req[q].service_id = discounts[i].service_id
        /\ services[req[q].service_id].exists
        /\ req[q].final_price = services[req[q].service_id].base_price

-----------------------------------------------------------------------------
(* Service deletion and what it leaves behind *)

\* A booking of service sid is Pending or Confirmed.
HasLiveBooking(sid) ==
    \E i \in 1..Len(bookings) :
        /\ bookings[i].service_id = sid
        /\ bookings[i].status \in {"Pending", "Confirmed"}

\* The request of p ends its hard delete in this step: the service is gone
\* and delete_many has run.
HardDeleteDone(p) ==
    /\ req[p].pc = "ds_discounts"
    /\ req'[p].pc = "done"
    /\ req'[p].code = 200

\* C22: delete_service chooses by its count of the Pending and Confirmed
\* bookings of the service: with none it goes on to remove the service, and
\* a service is removed only by a request whose count found none; with one
\* or more it keeps the service, sets its status to Inactive and changes
\* nothing else, the discounts and the bookings included.
C22_DeleteOrDeactivate ==
    [][/\ \A p \in Procs :
            /\ (req[p].pc = "ds_count"
                /\ req'[p].pc \in {"ds_deactivate", "ds_delete"})
               => /\ req'[p].pc = IF HasLiveBooking(req[p].service_id)
                                  THEN "ds_deactivate" ELSE "ds_delete"
                  /\ store' = store
            /\ (req[p].pc = "ds_deactivate" /\ req'[p].code = 200)
               => /\ services' =
                       [services EXCEPT ![req[p].service_id] =
                          IF @.exists THEN [@ EXCEPT !.status = "Inactive"]
                          ELSE @]
                  /\ discounts' = discounts
                  /\ bookings' = bookings
       /\ \A sid \in ServiceIds :
            (services[sid].exists /\ ~services'[sid].exists)
            => \E p \in Procs :
                  /\ req[p].pc = "ds_delete"
                  /\ req'[p].pc = "ds_discounts"
                  /\ req[p].service_id = sid
                  /\ req[p].active_bookings = 0
      ]_vars

\* A delete of a service with a Pending booking has ended by deactivating
\* it: the service is there, Inactive, with its discounts and the booking.
C22_Witness ==
    \E p \in Procs :
        /\ req[p].op = "delete_service" /\ req[p].code = 200
        /\ req[p].deactivated
        /\ services[req[p].service_id].exists
        /\ services[req[p].service_id].status = "Inactive"
        /\ \E i \in 1..Len(bookings) :
              /\ bookings[i].service_id = req[p].service_id
              /\ bookings[i].status = "Pending"
        /\ \E i \in 1..Len(discounts) :
              discounts[i].service_id = req[p].service_id

\* C23: when a hard delete of a service ends, no discount and no booking of
\* the service remains; and no other step removes a booking or a discount.
C23_CascadeOnHardDelete ==
    [][/\ \A p \in Procs :
            HardDeleteDone(p) =>
               /\ \A i \in 1..Len(discounts') :
                     discounts'[i].service_id # req[p].service_id
               /\ \A i \in 1..Len(bookings') :
                     bookings'[i].service_id # req[p].service_id
       /\ (\/ Len(bookings') < Len(bookings)
           \/ Len(discounts') < Len(discounts))
          => \E p \in Procs : HardDeleteDone(p)
      ]_vars

\* C25: a request that finds the store unreachable ends with the outcome
\* StoreUnavailable, which is neither a business error nor the generic
\* internal error, and has written nothing: it has not removed the service
\* without its discounts.
C25_StoreUnavailable ==
    [][\A p \in Procs :
          (req'[p] # req[p] /\ "exc" \in DOMAIN req'[p])
          => /\ req'[p].pc = "done"
             /\ req'[p].error = "StoreUnavailable"
             /\ req[p].pc # "ds_discounts"
      ]_vars

\* C28: the write of a customer cancel never turns a Completed booking into
\* a Cancelled one.
C28_CancelKeepsCompleted ==
    [][\A p \in Procs :
          CancelWriteStep(p) =>
            ~(/\ bookings[req[p].booking_id].status = "Completed"
              /\ bookings'[req[p].booking_id].status = "Cancelled")
      ]_vars

\* C29: every booking that is Pending or Confirmed is of a service that
\* exists.
C29_LiveBookingHasService ==
    \A i \in 1..Len(bookings) :
        bookings[i].status \in {"Pending", "Confirmed"}
        => services[bookings[i].service_id].exists

\* C30: a booking stays in the store and no step changes any of its fields
\* but status: not its service_id, date, time_slot, customer_id, base_price,
\* final_price, discount_applied or service_title.
C30_BookingSnapshot ==
    [][\A i \in 1..Len(bookings) :
          /\ i <= Len(bookings')
          /\ \A f \in DOMAIN bookings[i] \ {"status"} :
                bookings'[i][f] = bookings[i][f]
      ]_vars

\* A booking made at base price 100, with the flat 20 of its day applied,
\* has been cancelled after the price of its service became 50 and the
\* discount was deleted: it still carries 100 and 80.
C30_Witness ==
    \E i \in 1..Len(bookings) :
        /\ bookings[i].status = "Cancelled"
        /\ bookings[i].base_price = 10000
        /\ bookings[i].final_price = 8000
        /\ bookings[i].discount_applied
        /\ services[bookings[i].service_id].exists
        /\ services[bookings[i].service_id].base_price = 5000
        /\ \E p \in Procs : req[p].op = "cancel_booking" /\ req[p].code = 200

\* C27: every stored discount has start_date <= end_date.
C27_StartNotAfterEnd ==
    \A i \in 1..Len(discounts) :
        StrLe(discounts[i].start_date, discounts[i].end_date)

-----------------------------------------------------------------------------
(* Soft delete of staff *)

\* Worker p takes an update_staff request in this step.
UpdateStaffReceived(p) ==
    /\ nreq' = nreq + 1
    /\ req'[p] # req[p]
    /\ req'[p].op = "update_staff"

\* Worker p takes a deactivate_staff request in this step.
DeactivateReceived(p) ==
    /\ nreq' = nreq + 1
    /\ req'[p] # req[p]
    /\ req'[p].op = "deactivate_staff"

\* C24: no step takes is_deleted from true to false; an update request that
\* arrives for a soft-deleted member ends with NotFound and changes no
\* staff record, and a deactivate request for one ends with 200 and changes
\* no staff record.
C24_SoftDeleteIrreversible ==
    [][/\ \A s \in StaffIds :
            staff[s].is_deleted => staff'[s].is_deleted /\ staff'[s].exists
       /\ \A p \in Procs :
            /\ (UpdateStaffReceived(p) /\ staff[req'[p].staff_id].is_deleted)
               => /\ req'[p].pc = "done"
                  /\ req'[p].code = 404
                  /\ req'[p].error = "NotFound"
                  /\ staff' = staff
            /\ (DeactivateReceived(p) /\ staff[req'[p].staff_id].is_deleted)
               => /\ req'[p].pc = "done"
                  /\ req'[p].code = 200
                  /\ staff' = staff
      ]_vars

\* One worker has deactivated a soft-deleted member and the other has been
\* refused an update of it.
C24_Witness ==
    \E p, q \in Procs :
        /\ req[p].op = "update_staff" /\ req[p].code = 404
        /\ req[q].op = "deactivate_staff" /\ req[q].code = 200
        /\ req[p].staff_id = req[q].staff_id
        /\ staff[req[p].staff_id].is_deleted
        /\ req[p].data.has = {"status"} /\ req[p].data.status = "Active"
        /\ staff[req[p].staff_id].status = "Inactive"

-----------------------------------------------------------------------------
(* Unique emails *)

\* The email str is registered in docs, comparing after lower-casing.
Registered(docs, str) ==
    \E i \in 1..Len(docs) : Lower(docs[i].email) = Lower(str)

\* C26: after every step no two users have the same email, also when the
\* emails are compared after lower-casing; the pre-check of a registration
\* refuses with 409 an email it finds; the insert of a registration whose
\* email is registered, compared after lower-casing, ends with 409 and adds
\* no user, and otherwise ends with 201 and adds one user with the
\* lower-cased email.
C26_UniqueEmail ==
    [][/\ \A i, j \in 1..Len(users') :
            i # j => Lower(users'[i].email) # Lower(users'[j].email)
       /\ \A p \in Procs :
            /\ (req[p].pc = "rg_check" /\ req'[p].pc = "rg_insert")
               => /\ \A i \in 1..Len(users) : users[i].email # req[p].data.email
                  /\ users' = users
            /\ (req[p].pc = "rg_check" /\ req'[p].pc = "done")
               => /\ req'[p].code = 409
                  /\ Registered(users, req[p].data.email)
                  /\ users' = users
            /\ (req[p].pc = "rg_insert" /\ req'[p].pc = "done")
               => IF Registered(users, req[p].data.email)
                  THEN req'[p].code = 409 /\ users' = users
                  ELSE /\ req'[p].code = 201
                       /\ Len(users') = Len(users) + 1
                       /\ SubSeq(users', 1, Len(users)) = users
                       /\ users'[Len(users')].email = Lower(req[p].data.email)
      ]_vars

\* Two registrations of "a@x.co", one written "A@x.co", both went past the
\* pre-check; one was accepted, the other refused with 409 by the index, and
\* the store has the one user.
C26_Witness ==
    \E p, q \in Procs :
        /\ req[p].op = "customer_register" /\ req[p].code = 201
        /\ req[q].op = "customer_register" /\ req[q].code = 409
        /\ ~req[q].existing_user
        /\ req[p].data.email # req[q].data.email
        /\ Lower(req[p].data.email) = Lower(req[q].data.email)
        /\ Cardinality({i \in 1..Len(users) :
                          users[i].email = Lower(req[q].data.email)}) = 1

-----------------------------------------------------------------------------
(* Status of soft-deleted staff *)

\* C37: every staff member with is_deleted true has status Inactive.
C37_DeletedIsInactive ==
    \A s \in StaffIds :
        (staff[s].exists /\ staff[s].is_deleted) => staff[s].status = "Inactive"

-----------------------------------------------------------------------------
(* The resolver's choice of a discount *)

\* Discount k of the store is of service sid, is active, and today lies in
\* its window, both ends included, the dates compared as strings.
Satisfies(k, sid) ==
    /\ discounts[k].service_id = sid
    /\ discounts[k].is_active = TRUE
    /\ (discounts[k].start_date = Today \/ StrLess(discounts[k].start_date, Today))
    /\ (discounts[k].end_date = Today \/ StrLess(Today, discounts[k].end_date))

\* C31: the discount get_active_discount returns is a stored one that
\* satisfies the three conditions, and it returns none exactly when no
\* stored discount satisfies them.
C31_ActiveDiscount ==
    (calc.done /\ "discount" \in DOMAIN calc) =>
        /\ calc.discount # 0 =>
              /\ calc.discount \in 1..Len(discounts)
              /\ Satisfies(calc.discount, calc.service_id)
        /\ calc.discount = 0 <=>
              \A k \in 1..Len(discounts) : ~Satisfies(k, calc.service_id)

\* The resolver has returned a discount whose window ends today.
C31_Witness ==
    /\ calc.done /\ "discount" \in DOMAIN calc
    /\ calc.discount # 0
    /\ discounts[calc.discount].end_date = Today
    /\ discounts[calc.discount].start_date # Today

-----------------------------------------------------------------------------
(* The instant of a slot and the day of creation *)

\* C32: a booking create with a well-formed date and time whose slot
\* instant equals the current time is rejected with ValidationError and
\* inserts nothing, and one that goes on to the slot check is of a slot
\* strictly after now; a customer cancel by the owner of a Pending or
\* Confirmed booking whose slot instant equals the current time is rejected
\* and changes nothing, and one that goes on to its write is of a slot
\* strictly after now.
C32_StrictFuture ==
    [][\A p \in Procs :
          /\ (/\ CreateReceived(p)
              /\ validate_date_format(req'[p].data.date)
              /\ WellFormedTime(req'[p].data.time_slot))
             => LET instant == combine_date_time(req'[p].data.date,
                                                 req'[p].data.time_slot)
                IN  /\ instant = now
                       => /\ req'[p].pc = "done"
                          /\ req'[p].code = 400
                          /\ req'[p].error = "ValidationError"
                          /\ bookings' = bookings
                    /\ req'[p].pc = "cb_check" => instant > now
          /\ (CancelReceived(p) /\ req'[p].booking_id \in 1..Len(bookings))
             => LET b == bookings[req'[p].booking_id]
                    instant == combine_date_time(b.date, b.time_slot)
                IN  /\ (/\ instant = now
                        /\ b.customer_id = req'[p].customer_id
                        /\ b.status \in {"Pending", "Confirmed"})
                       => /\ req'[p].pc = "done"
                          /\ req'[p].code = 400
                          /\ bookings' = bookings
                    /\ req'[p].pc = "cn_write" => instant > now
      ]_vars

\* A create for today at 09:00, received at 09:00, has been rejected with
\* ValidationError; no booking holds the slot.
C32_Witness ==
    \E p \in Procs :
        /\ req[p].op = "create_booking"
        /\ req[p].code = 400 /\ req[p].error = "ValidationError"
        /\ validate_date_format(req[p].data.date)
        /\ WellFormedTime(req[p].data.time_slot)
        /\ combine_date_time(req[p].data.date, req[p].data.time_slot) = now
        /\ \A i \in 1..Len(bookings) : ~SameSlot(bookings[i], req[p].data)

\* The date of the server clock, in two digits.
CreationDay ==
    LET day == now \div HoursPerDay IN <<day \div 10, day % 10>>

\* The active discounts of service sid whose window contains the day.
Covering(sid, day) ==
    {i \in 1..Len(discounts) :
        /\ discounts[i].service_id = sid
        /\ discounts[i].is_active
        /\ StrLe(discounts[i].start_date, day)
        /\ StrLe(day, discounts[i].end_date)}

\* C36: when create_booking prices a booking, the discount is applied if
\* and only if an active discount of the service has a window containing
\* the day of the server clock, and the price is then the one of such a
\* discount; the booked date plays no part.  The booking inserted carries
\* that price.
C36_PricedByCreationDay ==
    [][\A p \in Procs :
          /\ (req[p].pc = "cb_price" /\ req'[p].pc = "cb_insert")
             => LET today == Covering(req[p].data.service_id, CreationDay)
                    base == req[p].service.base_price
                IN  /\ req'[p].price.discount_applied = (today # {})
                    /\ today # {}
                       => \E i \in today :
                             req'[p].price.final_price =
                               calculate_discounted_price(base,
                                   discounts[i].discount_type,
                                   discounts[i].discount_value)
                    /\ today = {} => req'[p].price.final_price = base
          /\ (InsertStep(p) /\ req'[p].code = 201)
             => /\ bookings'[Len(bookings')].final_price = req[p].price.final_price
                /\ bookings'[Len(bookings')].discount_applied =
                      req[p].price.discount_applied
      ]_vars

\* A booking for tomorrow, made today, carries today's flat 20 and not the
\* 50 percent whose window is tomorrow.
C36_Witness ==
    \E i \in 1..Len(bookings) :
        /\ bookings[i].status = "Pending"
        /\ bookings[i].date = <<0, 3>>
        /\ CreationDay = <<0, 2>>
        /\ bookings[i].discount_applied
        /\ bookings[i].final_price = 8000
        /\ 2 \in Covering(bookings[i].service_id, bookings[i].date)
        /\ 1 \notin Covering(bookings[i].service_id, bookings[i].date)

-----------------------------------------------------------------------------
(* The admin correction of attendance records *)

\* Worker p takes an update_attendance request in this step.
UpdateAttendanceReceived(p) ==
    /\ nreq' = nreq + 1
    /\ req'[p] # req[p]
    /\ req'[p].op = "update_attendance"

AttendanceStatuses == {"Present", "Absent", "Half-day"}

\* C33: after every step every attendance record has attendance_status
\* Present, Absent or Half-day; no step removes a record or changes its
\* staff_id or date; an attendance update of an existing record that
\* supplies a check_in_time or a check_out_time which is not HH:MM (a null
\* check_out_time apart) or an attendance_status outside the three ends
\* with ValidationError and writes nothing, and otherwise changes only the
\* supplied fields of that record.
C33_AttendanceUpdate ==
    [][/\ \A i \in 1..Len(attendance') :
            attendance'[i].attendance_status \in AttendanceStatuses
       /\ \A i \in 1..Len(attendance) :
            /\ i <= Len(attendance')
            /\ attendance'[i].staff_id = attendance[i].staff_id
            /\ attendance'[i].date = attendance[i].date
       /\ \A p \in Procs :
            (/\ UpdateAttendanceReceived(p)
             /\ req'[p].attendance_id \in 1..Len(attendance))
            => LET data == req'[p].data
                   id == req'[p].attendance_id
                   invalid ==
                      \/ /\ "check_in_time" \in data.has
                         /\ ~WellFormedTime(data.check_in_time)
                      \/ /\ "check_out_time" \in data.has
                         /\ data.check_out_time # NullTime
                         /\ ~WellFormedTime(data.check_out_time)
                      \/ /\ "attendance_status" \in data.has
                         /\ data.attendance_status \notin AttendanceStatuses
               IN  IF invalid
                   THEN /\ req'[p].code = 400
                        /\ req'[p].error = "ValidationError"
                        /\ attendance' = attendance
                   ELSE /\ req'[p].code = 200
                        /\ Len(attendance') = Len(attendance)
                        /\ \A i \in 1..Len(attendance) :
                              \A f \in DOMAIN attendance[i] :
                                 attendance'[i][f] =
                                    IF i = id /\ f \in data.has
                                    THEN data[f] ELSE attendance[i][f]
      ]_vars

-----------------------------------------------------------------------------
(* Fields of the stored services *)

\* C35: every stored service has status Active or Inactive, base_price
\* above 0 and duration above 0.
C35_ServiceFields ==
    \A s \in ServiceIds :
        services[s].exists =>
            /\ services[s].status \in {"Active", "Inactive"}
            /\ services[s].base_price > 0
            /\ services[s].duration > 0

-----------------------------------------------------------------------------
(* Role gating *)

\* The operations for the admin alone: the writes of services, discounts,
\* staff and attendance, and the admin setStatus.
AdminOnly ==
    {"create_service", "update_service", "delete_service",
     "create_discount", "update_discount", "delete_discount",
     "create_staff", "update_staff", "deactivate_staff",
     "attendance_checkin", "attendance_checkout", "update_attendance",
     "update_booking_status"}

\* The operations for customers alone.
CustomerOnly == {"create_booking", "cancel_booking"}

\* The caller of worker p does not have the role the operation op is for.
WrongRole(p, op) ==
    \/ op \in AdminOnly /\ users[Caller(p)].role # "admin"
    \/ op \in CustomerOnly /\ users[Caller(p)].role # "customer"

\* C34: a request for an admin-only operation by a caller whose role is not
\* admin, or for booking create or customer cancel by a caller whose role
\* is not customer, ends with Forbidden at once and leaves the store as it
\* is; no later step is taken for such a request.
C34_RoleGating ==
    [][\A p \in Procs :
          /\ (/\ nreq' = nreq + 1
              /\ req'[p] # req[p]
              /\ WrongRole(p, req'[p].op))
             => /\ req'[p].pc = "done"
                /\ req'[p].code = 403
                /\ req'[p].error = "Forbidden"
                /\ store' = store
          /\ (nreq' = nreq /\ req'[p] # req[p])
             => ~WrongRole(p, req[p].op)
      ]_vars

\* The customer has been refused the admin setStatus and the admin has been
\* refused a booking create; the booking is still Pending and alone.
C34_Witness ==
    \E p, q \in Procs :
        /\ users[Caller(p)].role = "customer"
        /\ req[p].op = "update_booking_status"
        /\ req[p].code = 403 /\ req[p].error = "Forbidden"
        /\ users[Caller(q)].role = "admin"
        /\ req[q].op = "create_booking"
        /\ req[q].code = 403 /\ req[q].error = "Forbidden"
        /\ Len(bookings) = 1 /\ bookings[1].status = "Pending"

====
